---- MODULE Spec2Model ----
(***************************************************************************)
(* Device lifecycle of the PLC data simulator: Device::start / stop /      *)
(* reset, the worker thread launched by startThread, and the run loops of  *)
(* the two concrete devices (SocketDevice, ModbusDevice).                  *)
(*                                                                         *)
(* One control thread (the caller of start/stop/reset) and the threads the *)
(* device creates are interleaved at the granularity of their reads and    *)
(* writes of the shared fields running_, status_, serverSocket_ and        *)
(* workerThread_.  A "fault" is a std::exception, the only kind the code's *)
(* handlers catch.  The status callback is assumed not to throw.           *)
(***************************************************************************)
EXTENDS Integers, Sequences, FiniteSets, TLC

\* ------------------------------------------------------------------ bounds
MaxCalls == 3      \* calls of start/stop/reset the control thread makes
MaxThreads == 2    \* thread slots (live std::thread instances of one device)
MaxDevices == 3    \* device objects handed to the collector
MaxConns == 3      \* client connections made to the socket device
MaxFds == 2        \* descriptor numbers the process hands out for them
MaxOps == 3        \* calls made on the collector
MaxTicks == 2      \* passes of a device's run loop
MaxSims == 2       \* generator objects
MaxSimOps == 2     \* calls made on the generators and the composite generator

\* --------------------------------------------------------------- constants
OFFLINE == "OFFLINE"
ONLINE == "ONLINE"
ERROR == "ERROR"
MAINTENANCE == "MAINTENANCE"
DeviceStatus == {OFFLINE, ONLINE, ERROR, MAINTENANCE}

SUCCESS == "SUCCESS"
CONNECTION_FAILED == "CONNECTION_FAILED"
UNKNOWN_ERROR == "UNKNOWN_ERROR"

Kinds == {"socket", "modbus"}
TIDs == 1..MaxThreads
Devs == 1..MaxDevices
Names == {"plc1", "plc2"}
Conns == 1..MaxConns
Fds == 1..MaxFds
Sims == 1..MaxSims

VARIABLES
    kind,          \* which concrete device this is
    config,        \* Device::config_
    running,       \* Device::running_ (std::atomic<bool>)
    status,        \* Device::status_
    serverSocket,  \* SocketDevice::serverSocket_: "none" (-1), "open", "stale"
    workerThread,  \* Device::workerThread_: 0 = not joinable, else the thread it names
    threads,       \* the device's worker threads, each with its accept thread
    callerPc,      \* position of the control thread inside start/stop/reset
    callerSeen,    \* status_ as read by the control thread in updateStatus
    inReset,       \* the control thread is inside reset()
    calls,         \* number of calls made so far
    cur,           \* bookkeeping of the call in progress
    callLog,       \* the last two completed calls
    cbLog,         \* history: arguments of the status callback, in order
    statusLog      \* history: the values status_ has been changed to, in order

\* The state of one device and of the calls made on it.
deviceVars == <<kind, config, running, status, serverSocket, workerThread, threads, callerPc,
                callerSeen, inReset, calls, cur, callLog, cbLog, statusLog>>

\* DataCollector and the devices it is given (data_collector.cpp).
VARIABLES
    devices,       \* DataCollector::devices_: the vector, as a sequence of device objects
    cRunning,      \* DataCollector::running_
    cThread,       \* the collector thread: position in collectLoop / updateLoop
    cPc,           \* position of the control thread inside a DataCollector call
    cArg,          \* arguments and locals of the DataCollector call in progress
    held,          \* device objects the caller still owns a shared_ptr to
    dName,         \* Device::getName() of each device object
    dRunning,      \* Device::isRunning() of each device object
    dAlive,        \* whether the device's worker thread is inside its loop
    dStatus,       \* Device::getStatus() of each device object
    cDiag,         \* what updateLoop's last examination of a device did
    cOps,          \* number of DataCollector calls made so far
    cLast          \* history: what the last completed addDevice did

collectorVars == <<devices, cRunning, cThread, cPc, cArg, held, dName, dRunning,
                   dAlive, dStatus, cDiag, cOps, cLast>>

\* The client connections of one running SocketDevice (socket_device.cpp).
VARIABLES
    clientSockets, \* SocketDevice::clientSockets_: the vector of descriptors
    clientsMutex,  \* SocketDevice::clientsMutex_: the thread that holds it
    fdConn,        \* the connection each descriptor number refers to, 0 = closed
    connState,     \* each connection as the peer drives it
    handlers,      \* the handleClient thread created for each connection
    acc,           \* the accept thread: position in acceptConnections
    bc,            \* the broadcasting thread: position in broadcastToClients
    cleaner,       \* position of the thread inside stopSocketServer
    sentLog,       \* history: the send attempts of the current broadcast
    snapshot,      \* history: clientSockets_ when the current broadcast began
    lastWrite,     \* history: outcome of the last write to each connection
    dropped        \* history: connections removed by their own handler

clientVars == <<clientSockets, clientsMutex, fdConn, connState, handlers, acc, bc,
                cleaner, sentLog, snapshot, lastWrite, dropped>>

\* The text protocol of one SocketDevice (socket_device.cpp): a string is the
\* sequence of its characters, a character outside ASCII is written by its
\* code point ("u6B63").
VARIABLES
    deviceName,    \* Device::config_.name
    counterValue,  \* SocketDevice::counterValue_
    statusValue,   \* SocketDevice::statusValue_
    statusCounter, \* the static statusCounter of SocketDevice::simulateStatus
    sTicks,        \* passes of SocketDevice::runLoop made
    received,      \* the bytes the last recv() put into buffer
    request,       \* the String handleClientRequest was called with
    wire,          \* the last message handed to send()
    wireKind,      \* which function wrote it
    seenKinds,     \* history: the kinds of message written so far
    counterRead,   \* history: the counterValue_ the last DATA or STATUS reply read, if any
    peerTicks,     \* increments of the static statusCounter made by other devices
    passLog        \* history: the calls broadcastGeneratedData made in the last pass

messageVars == <<deviceName, counterValue, statusValue, statusCounter, sTicks,
                 received, request, wire, wireKind, seenKinds, counterRead,
                 peerTicks, passLog>>

\* The registers of one ModbusDevice (modbus_device.cpp); values are in
\* thousandths.
VARIABLES
    registers,        \* ModbusDevice::registers_
    mbStatusValue,    \* ModbusDevice::statusValue_
    mbStatusCounter,  \* the static statusCounter of ModbusDevice::simulateStatus
    mbRunning,        \* initialize() has run and the run loop is active
    mTicks,           \* passes of ModbusDevice::runLoop made
    emitted,          \* the readings emitted by the pass that ran last, if one did
    lastOp,           \* history: the operation that acted last
    returned          \* history: what the last getRegisterValue returned

registerVars == <<registers, mbStatusValue, mbStatusCounter, mbRunning, mTicks, emitted,
                  lastOp, returned>>

\* The generators of data_simulator.cpp and one CompositeSimulator.
VARIABLES
    sim,           \* each DataSimulator object: class, name_, minValue_, maxValue_, counters
    simulators,    \* CompositeSimulator::simulators_
    typeMap,       \* CompositeSimulator::typeMap_, 0 = no entry
    simOps,        \* number of calls made so far
    produced       \* history: what the last generateData call returned

simulatorVars == <<sim, simulators, typeMap, simOps, produced>>

vars == <<deviceVars, collectorVars, clientVars, messageVars, registerVars,
          simulatorVars>>

\* What the actions of the device model leave alone.
outsideDevice == <<collectorVars, clientVars, messageVars, registerVars, simulatorVars>>
\* What the actions of the collector model leave alone.
outsideCollector == <<deviceVars, clientVars, messageVars, registerVars, simulatorVars>>
\* What the actions of the client connection model leave alone.
outsideClients == <<deviceVars, collectorVars, messageVars, registerVars, simulatorVars>>
\* What the actions of the text protocol model leave alone.
outsideMessages == <<deviceVars, collectorVars, clientVars, registerVars, simulatorVars>>
\* What the actions of the register model leave alone.
outsideRegisters == <<deviceVars, collectorVars, clientVars, messageVars, simulatorVars>>
\* What the actions of the generator model leave alone.
outsideSimulators == <<deviceVars, collectorVars, clientVars, messageVars, registerVars>>

\* A thread slot: pc is the worker's position in workerFunction/runLoop, acc
\* the position of the accept thread SocketDevice::runLoop creates, seen the
\* status_ value updateStatus read, k the readings delivered in this
\* iteration, df whether the data callback threw during this iteration.
NoThread == [pc |-> "none", acc |-> "none", seen |-> OFFLINE, k |-> 0, df |-> FALSE]

NoCall == [op |-> "none", res |-> SUCCESS, running0 |-> FALSE, status0 |-> OFFLINE,
           cb0 |-> 0, cbs |-> 0, online |-> 0, initRes |-> "none", launched |-> FALSE]

\* The collector locals when no call is in progress.
NoArg == [dev |-> 0, name |-> "", it |-> 0, old |-> 0, keep |-> FALSE,
          wasRunning |-> FALSE]
NoAdd == [dev |-> 0, old |-> 0, oldRunning |-> FALSE, started |-> FALSE,
          wasRunning |-> FALSE]
NoExam == [dev |-> 0, ran |-> FALSE, st |-> "", emitted |-> FALSE]
NoCollectorThread == [pc |-> "none", idx |-> 0, raced |-> FALSE]

\* DataCollector::DataCollector: no devices, not running, no thread.
CollectorIdle ==
    /\ devices = <<>>
    /\ cRunning = FALSE
    /\ cThread = NoCollectorThread
    /\ cPc = "idle"
    /\ cArg = NoArg
    /\ held = {}
    /\ dName = [d \in Devs |-> "plc1"]
    /\ dRunning = [d \in Devs |-> FALSE]
    /\ dAlive = [d \in Devs |-> FALSE]
    /\ dStatus = [d \in Devs |-> OFFLINE]
    /\ cDiag = NoExam
    /\ cOps = 0
    /\ cLast = NoAdd

\* The mutex holder when clientsMutex_ is free.
Nobody == [who |-> "none", id |-> 0]
NoHandler == [pc |-> "none", fd |-> 0, det |-> 0]

\* SocketDevice::SocketDevice: no client, no descriptor, no thread.
ClientsIdle ==
    /\ clientSockets = <<>>
    /\ clientsMutex = Nobody
    /\ fdConn = [f \in Fds |-> 0]
    /\ connState = [c \in Conns |-> "pending"]
    /\ handlers = [c \in Conns |-> NoHandler]
    /\ acc = [pc |-> "none", fd |-> 0, conn |-> 0]
    /\ bc = [pc |-> "none", idx |-> 0]
    /\ cleaner = "none"
    /\ sentLog = <<>>
    /\ snapshot = <<>>
    /\ lastWrite = [c \in Conns |-> "ok"]
    /\ dropped = {}

\* The last step built no DATA and no STATUS reply.
NoRead == {}

\* SocketDevice::SocketDevice: counterValue_(0), statusValue_ the two characters U+6B63 U+5E38.
MessagesQuiet ==
    /\ counterValue = 0
    /\ statusValue = <<"u6B63", "u5E38">>
    /\ statusCounter = 0
    /\ sTicks = 0
    /\ received = <<>>
    /\ request = <<>>
    /\ wire = <<>>
    /\ wireKind = "none"
    /\ seenKinds = {}
    /\ counterRead = NoRead
    /\ peerTicks = 0
    /\ passLog = <<>>

\* The same for a device whose config_.name is plc1.
MessagesIdle ==
    /\ deviceName = <<"p", "l", "c", "1">>
    /\ MessagesQuiet

\* Register addresses and scale (values are kept in thousandths).
Scale == 1000
Addresses == {0, 2, 4, 6}

\* ModbusDevice::initializeRegisters: the four registers with their ranges;
\* the ModbusRegister constructor sets currentValue(0.0).
InitialRegisters ==
    [a \in Addresses |->
        [minValue |-> CASE a = 0 -> 15 * Scale [] a = 2 -> 800
                         [] a = 4 -> 80 * Scale [] a = 6 -> 0,
         maxValue |-> CASE a = 0 -> 35 * Scale [] a = 2 -> 1200
                         [] a = 4 -> 120 * Scale [] a = 6 -> 4 * Scale,
         currentValue |-> 0]]

\* No getRegisterValue was the last operation.
NoReturn == [address |-> -1, value |-> 0]

\* ModbusDevice::ModbusDevice: statusValue_(0), initializeRegisters().
RegistersIdle ==
    /\ registers = InitialRegisters
    /\ mbStatusValue = 0
    /\ mbStatusCounter = 0
    /\ mbRunning = FALSE
    /\ mTicks = 0
    /\ emitted = <<>>
    /\ lastOp = "constructor"
    /\ returned = NoReturn

\* The semantic types of DataType and the generator classes.
DataTypes == {"TEMPERATURE", "PRESSURE", "FLOW", "STATUS", "CUSTOM"}
SimClasses == {"TEMPERATURE", "PRESSURE", "FLOW", "STATUS"}

\* The default name argument of each generator's constructor.
DefaultName(class) ==
    CASE class = "TEMPERATURE" -> <<"T", "e", "m", "p", "e", "r", "a", "t", "u", "r", "e">>
      [] class = "PRESSURE" -> <<"P", "r", "e", "s", "s", "u", "r", "e">>
      [] class = "FLOW" -> <<"F", "l", "o", "w">>
      [] class = "STATUS" -> <<"S", "t", "a", "t", "u", "s">>

\* DataSimulator::DataSimulator and the constructor of each generator class:
\* name_, the range set by setMinValue/setMaxValue (in thousandths), the
\* counter (trendCounter_, cycleCounter_, seasonalCounter_, statusCounter_),
\* trend_ and currentStatus_.
NewSimulator(class, name) ==
    [class |-> class,
     name |-> name,
     minValue |-> CASE class = "TEMPERATURE" -> 15 * Scale [] class = "PRESSURE" -> 800
                    [] class = "FLOW" -> 80 * Scale [] class = "STATUS" -> 0,
     maxValue |-> CASE class = "TEMPERATURE" -> 35 * Scale [] class = "PRESSURE" -> 1200
                    [] class = "FLOW" -> 120 * Scale [] class = "STATUS" -> 4 * Scale,
     counter |-> 0,
     trend |-> 0,
     currentStatus |-> 0]

NoProduced == [op |-> "none", req |-> "", by |-> 0, reading |-> <<>>]

\* No composite generator in use: default-constructed generators, nothing
\* registered, nothing produced.
SimulatorsIdle ==
    /\ sim = [x \in Sims |-> NewSimulator("TEMPERATURE", DefaultName("TEMPERATURE"))]
    /\ simulators = <<>>
    /\ typeMap = [t \in DataTypes |-> 0]
    /\ simOps = 0
    /\ produced = NoProduced

\* DeviceConfig values: the one the device is constructed with and the ones
\* updateConfig may be given (name, address, port; the listening address and
\* port are read from it when the server socket is bound).
FirstConfig == [name |-> "plc1", address |-> "0.0.0.0", port |-> 502]

Configs == {FirstConfig, [name |-> "plc2", address |-> "127.0.0.1", port |-> 1502]}

\* Device::Device: status_ OFFLINE, running_ false, no thread, no call made.
DeviceIdle ==
    /\ config = FirstConfig
    /\ running = FALSE
    /\ status = OFFLINE
    /\ serverSocket = "none"
    /\ workerThread = 0
    /\ threads = [t \in TIDs |-> NoThread]
    /\ callerPc = "idle"
    /\ callerSeen = OFFLINE
    /\ inReset = FALSE
    /\ calls = 0
    /\ cur = NoCall
    /\ callLog = <<>>
    /\ cbLog = <<>>
    /\ statusLog = <<>>

\* Device::Device, SocketDevice::SocketDevice, ModbusDevice::ModbusDevice
Init ==
    /\ CollectorIdle
    /\ ClientsIdle
    /\ MessagesIdle
    /\ RegistersIdle
    /\ SimulatorsIdle
    /\ kind \in Kinds
    /\ config = FirstConfig
    /\ running = FALSE
    /\ status = OFFLINE
    /\ serverSocket = "none"
    /\ workerThread = 0
    /\ threads = [t \in TIDs |-> NoThread]
    /\ callerPc = "idle"
    /\ callerSeen = OFFLINE
    /\ inReset = FALSE
    /\ calls = 0
    /\ cur = NoCall
    /\ callLog = <<>>
    /\ cbLog = <<>>
    /\ statusLog = <<>>

\* ----------------------------------------------------------------- helpers

\* Pcs at which a thread is inside while (running_) { ... } of runLoop.
LoopPcs == {"tick", "deliver", "broadcast", "sleep", "caught", "caught_wr", "fault_sleep"}
\* Pcs at which the thread exists and has not left runLoop's while loop for good.
AlivePcs == LoopPcs \cup {"entry", "check"}

\* Number of ONLINE entries of a sequence of statuses.
RECURSIVE CountOnline(_)
CountOnline(s) ==
    IF s = <<>> THEN 0
    ELSE (IF Head(s) = ONLINE THEN 1 ELSE 0) + CountOnline(Tail(s))

\* Device::updateStatus, the test `status_ != newStatus` on the value read.
StatusChanged_Always(seen, new) == TRUE
StatusChanged(seen, new) == seen # new

\* Device::updateStatus after the read of status_: assignment and callback.
UpdateStatusWrite(seen, new) ==
    IF StatusChanged(seen, new)
    THEN /\ status' = new
         /\ cbLog' = Append(cbLog, new)
         /\ statusLog' = IF status # new THEN Append(statusLog, new) ELSE statusLog
    ELSE UNCHANGED <<status, cbLog, statusLog>>

\* std::thread::join as used by startThread and stopThread: returns once the
\* thread function has returned.
JoinReturns_Detached(t) == TRUE
JoinReturns(t) == threads[t].pc = "done"

\* `if (workerThread_.joinable()) workerThread_.join();` can return.
JoinDone == workerThread # 0 => JoinReturns(workerThread)

\* The thread table once the joinable worker thread has been joined: a thread
\* that has finished is gone.
AfterJoin ==
    IF workerThread = 0 THEN threads
    ELSE [threads EXCEPT ![workerThread] =
             IF threads[workerThread].pc = "done" THEN NoThread ELSE @]

\* The slot a freshly created std::thread takes in the table thr.
FreeSlot(thr) ==
    CHOOSE t \in TIDs :
        /\ thr[t].pc = "none"
        /\ \A u \in TIDs : thr[u].pc = "none" => t <= u

\* The last two completed calls, after call record c has completed.
Logged(c) == IF Len(callLog) < 2 THEN Append(callLog, c) ELSE <<callLog[2], c>>

\* A call with bookkeeping record c returns res to the control thread's caller.
\* log is the callback history at the moment of the return.
Complete(c, res, log) ==
    /\ callLog' = Logged([c EXCEPT !.res = res,
                                   !.cbs = Len(log) - c.cb0,
                                   !.online = CountOnline(SubSeq(log, c.cb0 + 1, Len(log)))])
    /\ cur' = NoCall
    /\ callerPc' = "idle"
    /\ inReset' = FALSE

\* The bookkeeping record of a call that begins now.
Begin(op) ==
    [NoCall EXCEPT !.op = op, !.running0 = running, !.status0 = status, !.cb0 = Len(cbLog)]

\* ------------------------------------------------------- the control thread

\* Device::start, the test `if (running_)`.
AlreadyRunning_Never == FALSE
AlreadyRunning == running

\* Device::start entered with the bookkeeping record c; the early return.
StartEntry(c) ==
    IF AlreadyRunning
    THEN Complete(c, SUCCESS, cbLog)
    ELSE /\ cur' = c
         /\ callerPc' = "start_init"
         /\ UNCHANGED <<callLog, inReset>>

\* A call of Device::start().
CallStart ==
    /\ callerPc = "idle"
    /\ calls < MaxCalls
    /\ calls' = calls + 1
    /\ StartEntry(Begin("start"))
    /\ UNCHANGED <<outsideDevice, config, kind, running, status, serverSocket, workerThread, threads,
                   callerSeen, cbLog, statusLog>>

\* The results initialize() can return: both devices turn an exception into
\* UNKNOWN_ERROR; SocketDevice::initialize returns CONNECTION_FAILED when
\* startSocketServer fails, ModbusDevice::initialize never does
\* (startModbusServer always returns true).
InitResults ==
    IF kind = "socket" THEN {SUCCESS, CONNECTION_FAILED, UNKNOWN_ERROR}
    ELSE {SUCCESS, UNKNOWN_ERROR}

\* serverSocket_ after startSocketServer: -1 when socket() fails, the closed
\* descriptor when setsockopt, bind or listen fails, the listening one otherwise.
ServerSocketAfter(r) ==
    IF kind # "socket" THEN {serverSocket}
    ELSE IF r = SUCCESS THEN {"open"} ELSE {"none", "stale"}

\* Device::start, the test `if (initResult != ErrorCode::SUCCESS)`.
InitFailed_Ignored(r) == FALSE
InitFailed(r) == r # SUCCESS

\* Device::start, step 1: initialize() and the early return on failure.
StartInitialize ==
    /\ callerPc = "start_init"
    /\ \E r \in InitResults :
         /\ serverSocket' \in ServerSocketAfter(r)
         /\ IF InitFailed(r)
            THEN Complete([cur EXCEPT !.initRes = r], r, cbLog)
            ELSE /\ cur' = [cur EXCEPT !.initRes = r]
                 /\ callerPc' = "start_thread"
                 /\ UNCHANGED <<callLog, inReset>>
    /\ UNCHANGED <<outsideDevice, config, kind, running, status, workerThread, threads, callerSeen, calls,
                   cbLog, statusLog>>

\* Device::start, step 2: startThread(). It joins a still joinable thread and
\* then creates the worker thread; std::thread's constructor throws
\* std::system_error when the thread cannot be created, and start() catches it.
StartThread ==
    /\ callerPc = "start_thread"
    /\ JoinDone
    /\ \E ok \in BOOLEAN :
         IF ok
         THEN /\ \E t \in TIDs : AfterJoin[t].pc = "none"
              /\ threads' = [AfterJoin EXCEPT ![FreeSlot(AfterJoin)] =
                                [NoThread EXCEPT !.pc = "entry"]]
              /\ workerThread' = FreeSlot(AfterJoin)
              /\ cur' = [cur EXCEPT !.launched = TRUE]
              /\ callerPc' = "start_status"
         ELSE /\ threads' = AfterJoin
              /\ workerThread' = 0
              /\ cur' = cur
              /\ callerPc' = "start_err"
    /\ UNCHANGED <<outsideDevice, config, kind, running, status, serverSocket, callerSeen, inReset, calls,
                   callLog, cbLog, statusLog>>

\* updateStatus on the control thread: the read of status_ in
\* `if (status_ != newStatus)`.
CallerReadStatus(from, to) ==
    /\ callerPc = from
    /\ callerSeen' = status
    /\ callerPc' = to
    /\ UNCHANGED <<outsideDevice, config, kind, running, status, serverSocket, workerThread, threads, inReset,
                   calls, cur, callLog, cbLog, statusLog>>

\* Device::start, step 3: updateStatus(DeviceStatus::ONLINE), the read.
StartStatusRead == CallerReadStatus("start_status", "start_status_wr")

\* Device::start, step 3: updateStatus(DeviceStatus::ONLINE), write and callback.
StartStatusWrite ==
    /\ callerPc = "start_status_wr"
    /\ UpdateStatusWrite(callerSeen, ONLINE)
    /\ callerPc' = "start_setrun"
    /\ UNCHANGED <<outsideDevice, config, kind, running, serverSocket, workerThread, threads, callerSeen,
                   inReset, calls, cur, callLog>>

\* Device::start: `running_ = true; return ErrorCode::SUCCESS;`
StartSetRunning ==
    /\ callerPc = "start_setrun"
    /\ running' = TRUE
    /\ Complete(cur, SUCCESS, cbLog)
    /\ UNCHANGED <<outsideDevice, config, kind, status, serverSocket, workerThread, threads, callerSeen, calls,
                   cbLog, statusLog>>

\* Device::start, the catch block: updateStatus(DeviceStatus::ERROR), the read.
StartErrorRead == CallerReadStatus("start_err", "start_err_wr")

\* Device::start, the catch block: updateStatus(ERROR) and return UNKNOWN_ERROR.
StartErrorWrite ==
    /\ callerPc = "start_err_wr"
    /\ UpdateStatusWrite(callerSeen, ERROR)
    /\ Complete(cur, UNKNOWN_ERROR, cbLog')
    /\ UNCHANGED <<outsideDevice, config, kind, running, serverSocket, workerThread, threads, callerSeen, calls>>

\* Device::stop entered with the bookkeeping record c; the early return.
\* Inside reset() the early return leads on to reset's sleep.
StopEntry(c, rst) ==
    /\ inReset' = rst
    /\ IF ~running
       THEN IF rst THEN /\ cur' = c
                        /\ callerPc' = "reset_sleep"
                        /\ UNCHANGED callLog
            ELSE /\ callLog' = Logged([c EXCEPT !.res = SUCCESS])
                 /\ cur' = NoCall
                 /\ callerPc' = "idle"
       ELSE /\ cur' = c
            /\ callerPc' = "stop_thread"
            /\ UNCHANGED callLog

\* A call of Device::stop().
CallStop ==
    /\ callerPc = "idle"
    /\ calls < MaxCalls
    /\ calls' = calls + 1
    /\ StopEntry(Begin("stop"), FALSE)
    /\ UNCHANGED <<outsideDevice, config, kind, running, status, serverSocket, workerThread, threads,
                   callerSeen, cbLog, statusLog>>

\* A call of Device::reset(): it begins with stop().
CallReset ==
    /\ callerPc = "idle"
    /\ calls < MaxCalls
    /\ calls' = calls + 1
    /\ StopEntry(Begin("reset"), TRUE)
    /\ UNCHANGED <<outsideDevice, config, kind, running, status, serverSocket, workerThread, threads,
                   callerSeen, cbLog, statusLog>>

\* Device::stop, step 1: stopThread() joins the worker thread.
StopThread ==
    /\ callerPc = "stop_thread"
    /\ JoinDone
    /\ threads' = AfterJoin
    /\ workerThread' = 0
    /\ callerPc' = "stop_cleanup"
    /\ UNCHANGED <<outsideDevice, config, kind, running, status, serverSocket, callerSeen, inReset, calls, cur,
                   callLog, cbLog, statusLog>>

\* Device::stop, step 2: cleanup(). SocketDevice::cleanup closes the server
\* socket (stopSocketServer); ModbusDevice::cleanup has nothing to release.
StopCleanup ==
    /\ callerPc = "stop_cleanup"
    /\ serverSocket' = IF kind = "socket" THEN "none" ELSE serverSocket
    /\ callerPc' = "stop_status"
    /\ UNCHANGED <<outsideDevice, config, kind, running, status, workerThread, threads, callerSeen, inReset,
                   calls, cur, callLog, cbLog, statusLog>>

\* Device::stop, step 3: updateStatus(DeviceStatus::OFFLINE), the read.
StopStatusRead == CallerReadStatus("stop_status", "stop_status_wr")

\* Device::stop, step 3: updateStatus(DeviceStatus::OFFLINE), write and callback.
StopStatusWrite ==
    /\ callerPc = "stop_status_wr"
    /\ UpdateStatusWrite(callerSeen, OFFLINE)
    /\ callerPc' = "stop_clear"
    /\ UNCHANGED <<outsideDevice, config, kind, running, serverSocket, workerThread, threads, callerSeen,
                   inReset, calls, cur, callLog>>

\* Device::stop: `running_ = false; return ErrorCode::SUCCESS;`
StopClearRunning ==
    /\ callerPc = "stop_clear"
    /\ running' = FALSE
    /\ IF inReset
       THEN /\ callerPc' = "reset_sleep"
            /\ UNCHANGED <<cur, callLog, inReset>>
       ELSE Complete(cur, SUCCESS, cbLog)
    /\ UNCHANGED <<outsideDevice, config, kind, status, serverSocket, workerThread, threads, callerSeen, calls,
                   cbLog, statusLog>>

\* Device::reset: the one second sleep, then `return start();`
ResetSleepStart ==
    /\ callerPc = "reset_sleep"
    /\ StartEntry(cur)
    /\ UNCHANGED <<outsideDevice, config, kind, running, status, serverSocket, workerThread, threads,
                   callerSeen, calls, cbLog, statusLog>>

\* ------------------------------------------------------- the worker thread

\* threads with the record of thread t replaced by r.
With(t, r) == [threads EXCEPT ![t] = r]

\* Readings one tick hands to sendData: SocketDevice::broadcastGeneratedData
\* sends the counter and the status, ModbusDevice::sendDataToCallback one
\* reading per register (four registers).
NumReadings == IF kind = "socket" THEN 2 ELSE 4

\* Device::workerFunction entering runLoop; SocketDevice::runLoop first
\* creates the accept thread. When std::thread's constructor throws there,
\* the exception leaves runLoop and workerFunction catches it.
WorkerEntry(t) ==
    /\ threads[t].pc = "entry"
    /\ \E ok \in BOOLEAN :
         /\ ~ok => kind = "socket"
         /\ threads' = With(t, [threads[t] EXCEPT
                                   !.pc = IF ok THEN "check" ELSE "wf_caught",
                                   !.acc = IF ok /\ kind = "socket" THEN "check"
                                           ELSE "none"])
    /\ UNCHANGED <<outsideDevice, config, kind, running, status, serverSocket, workerThread, callerPc,
                   callerSeen, inReset, calls, cur, callLog, cbLog, statusLog>>

\* runLoop: the test of `while (running_)`. When it fails ModbusDevice::runLoop
\* returns and SocketDevice::runLoop goes on to join the accept thread.
LoopCheck(t) ==
    /\ threads[t].pc = "check"
    /\ threads' = With(t, [threads[t] EXCEPT
                              !.pc = IF running THEN "tick"
                                     ELSE IF kind = "socket" THEN "join_accept"
                                     ELSE "done"])
    /\ UNCHANGED <<outsideDevice, config, kind, running, status, serverSocket, workerThread, callerPc,
                   callerSeen, inReset, calls, cur, callLog, cbLog, statusLog>>

\* Where control goes after runLoop's catch block: the try/catch lies inside
\* the while loop, so the loop condition is tested again.
AfterCatch_LeaveLoop == IF kind = "socket" THEN "join_accept" ELSE "done"
AfterCatch == "check"

\* status_ after the try block of an iteration has run without a fault: the
\* loop body never touches status_.
StatusAfterTick_Recover(s) == IF s = ERROR THEN ONLINE ELSE s
StatusAfterTick(s) == s

\* runLoop, the first part of an iteration: generateSimulatedData() (and for
\* the Modbus device handleModbusRequest()), which may throw.
Tick(t) ==
    /\ threads[t].pc = "tick"
    /\ \E fault \in BOOLEAN :
         threads' = With(t, [threads[t] EXCEPT
                                !.pc = IF fault THEN "caught" ELSE "deliver",
                                !.k = 0, !.df = FALSE])
    /\ UNCHANGED <<outsideDevice, config, kind, running, status, serverSocket, workerThread, callerPc,
                   callerSeen, inReset, calls, cur, callLog, cbLog, statusLog>>

\* Where the iteration goes after Device::sendData delivered the reading
\* number k: sendData catches a fault of the data callback itself.
AfterSendData_Propagate(k, fault) ==
    IF fault THEN "caught"
    ELSE IF k < NumReadings THEN "deliver"
    ELSE IF kind = "socket" THEN "broadcast" ELSE "sleep"
AfterSendData(k, fault) ==
    IF k < NumReadings THEN "deliver"
    ELSE IF kind = "socket" THEN "broadcast" ELSE "sleep"

\* Device::sendData for the next reading of the iteration; the data callback
\* may throw.
Deliver(t) ==
    /\ threads[t].pc = "deliver"
    /\ \E fault \in BOOLEAN :
         threads' = With(t, [threads[t] EXCEPT
                                !.pc = AfterSendData(threads[t].k + 1, fault),
                                !.k = threads[t].k + 1,
                                !.df = threads[t].df \/ fault])
    /\ UNCHANGED <<outsideDevice, config, kind, running, status, serverSocket, workerThread, callerPc,
                   callerSeen, inReset, calls, cur, callLog, cbLog, statusLog>>

\* SocketDevice::broadcastData of the counter reading; it catches its own faults.
Broadcast(t) ==
    /\ threads[t].pc = "broadcast"
    /\ threads' = With(t, [threads[t] EXCEPT !.pc = "sleep"])
    /\ UNCHANGED <<outsideDevice, config, kind, running, status, serverSocket, workerThread, callerPc,
                   callerSeen, inReset, calls, cur, callLog, cbLog, statusLog>>

\* runLoop: sleep_for(updateInterval_) ends a faultless iteration.
Sleep(t) ==
    /\ threads[t].pc = "sleep"
    /\ threads' = With(t, [threads[t] EXCEPT !.pc = "check"])
    /\ status' = StatusAfterTick(status)
    /\ statusLog' = IF status' # status THEN Append(statusLog, status') ELSE statusLog
    /\ UNCHANGED <<outsideDevice, config, kind, running, serverSocket, workerThread, callerPc,
                   callerSeen, inReset, calls, cur, callLog, cbLog>>

\* runLoop's catch block: updateStatus(DeviceStatus::ERROR), the read of status_.
CatchRead(t) ==
    /\ threads[t].pc = "caught"
    /\ threads' = With(t, [threads[t] EXCEPT !.pc = "caught_wr", !.seen = status])
    /\ UNCHANGED <<outsideDevice, config, kind, running, status, serverSocket, workerThread, callerPc,
                   callerSeen, inReset, calls, cur, callLog, cbLog, statusLog>>

\* runLoop's catch block: updateStatus(DeviceStatus::ERROR), write and callback.
CatchWrite(t) ==
    /\ threads[t].pc = "caught_wr"
    /\ UpdateStatusWrite(threads[t].seen, ERROR)
    /\ threads' = With(t, [threads[t] EXCEPT !.pc = "fault_sleep"])
    /\ UNCHANGED <<outsideDevice, config, kind, running, serverSocket, workerThread, callerPc,
                   callerSeen, inReset, calls, cur, callLog>>

\* runLoop's catch block: sleep_for(Duration(1000)), then the next iteration.
FaultSleep(t) ==
    /\ threads[t].pc = "fault_sleep"
    /\ threads' = With(t, [threads[t] EXCEPT !.pc = AfterCatch])
    /\ UNCHANGED <<outsideDevice, config, kind, running, status, serverSocket, workerThread, callerPc,
                   callerSeen, inReset, calls, cur, callLog, cbLog, statusLog>>

\* Device::workerFunction's catch block: updateStatus(DeviceStatus::ERROR),
\* the read of status_.
WorkerFunctionCatchRead(t) ==
    /\ threads[t].pc = "wf_caught"
    /\ threads' = With(t, [threads[t] EXCEPT !.pc = "wf_caught_wr", !.seen = status])
    /\ UNCHANGED <<outsideDevice, config, kind, running, status, serverSocket, workerThread, callerPc,
                   callerSeen, inReset, calls, cur, callLog, cbLog, statusLog>>

\* Device::workerFunction's catch block: updateStatus(DeviceStatus::ERROR),
\* write and callback; then the thread function returns.
WorkerFunctionCatchWrite(t) ==
    /\ threads[t].pc = "wf_caught_wr"
    /\ UpdateStatusWrite(threads[t].seen, ERROR)
    /\ threads' = With(t, [threads[t] EXCEPT !.pc = "done"])
    /\ UNCHANGED <<outsideDevice, config, kind, running, serverSocket, workerThread, callerPc,
                   callerSeen, inReset, calls, cur, callLog>>

\* SocketDevice::runLoop after the loop: acceptThread.join(), then return.
JoinAccept(t) ==
    /\ threads[t].pc = "join_accept"
    /\ threads[t].acc = "done"
    /\ threads' = With(t, [threads[t] EXCEPT !.pc = "done", !.acc = "none"])
    /\ UNCHANGED <<outsideDevice, config, kind, running, status, serverSocket, workerThread, callerPc,
                   callerSeen, inReset, calls, cur, callLog, cbLog, statusLog>>

\* SocketDevice::acceptConnections: the test
\* `while (running_ && serverSocket_ >= 0)`; then the blocking accept().
AcceptCheck(t) ==
    /\ threads[t].acc = "check"
    /\ threads' = With(t, [threads[t] EXCEPT
                              !.acc = IF running /\ serverSocket # "none"
                                      THEN "accept" ELSE "done"])
    /\ UNCHANGED <<outsideDevice, config, kind, running, status, serverSocket, workerThread, callerPc,
                   callerSeen, inReset, calls, cur, callLog, cbLog, statusLog>>

\* SocketDevice::acceptConnections: accept() returns, with a connection or
\* with an error, and the loop tests its condition again.
AcceptReturn(t) ==
    /\ threads[t].acc = "accept"
    /\ threads' = With(t, [threads[t] EXCEPT !.acc = "check"])
    /\ UNCHANGED <<outsideDevice, config, kind, running, status, serverSocket, workerThread, callerPc,
                   callerSeen, inReset, calls, cur, callLog, cbLog, statusLog>>

\* ---------------------------------------------------------- specifications

\* The steps of a call in progress on the control thread.
CallerStep ==
    \/ StartInitialize
    \/ StartThread
    \/ StartStatusRead
    \/ StartStatusWrite
    \/ StartSetRunning
    \/ StartErrorRead
    \/ StartErrorWrite
    \/ StopThread
    \/ StopCleanup
    \/ StopStatusRead
    \/ StopStatusWrite
    \/ StopClearRunning
    \/ ResetSleepStart

\* Device::updateConfig(c) going through what a restart does instead of only
\* storing c.
UpdateConfig_Reinitialize(c) ==
    /\ config' = c
    /\ running' = FALSE
    /\ UNCHANGED <<outsideDevice, kind, status, serverSocket, workerThread, threads,
                   callerPc, callerSeen, inReset, calls, cur, callLog, cbLog, statusLog>>

\* Device::updateConfig(c), called from any thread at any time: config_ = c;
\* the branch taken when running_ is set only writes a log line.
UpdateConfig(c) ==
    /\ config' = c
    /\ UNCHANGED <<outsideDevice, kind, running, status, serverSocket, workerThread,
                   threads, callerPc, callerSeen, inReset, calls, cur, callLog, cbLog,
                   statusLog>>

\* The steps of worker thread t.
WorkerStep(t) ==
    \/ WorkerEntry(t)
    \/ LoopCheck(t)
    \/ Tick(t)
    \/ Deliver(t)
    \/ Broadcast(t)
    \/ Sleep(t)
    \/ CatchRead(t)
    \/ CatchWrite(t)
    \/ FaultSleep(t)
    \/ WorkerFunctionCatchRead(t)
    \/ WorkerFunctionCatchWrite(t)
    \/ JoinAccept(t)

Next ==
    \/ CallStart
    \/ CallStop
    \/ CallReset
    \/ \E c \in Configs : UpdateConfig(c)
    \/ CallerStep
    \/ \E t \in TIDs : WorkerStep(t)
    \/ \E t \in TIDs : AcceptCheck(t)
    \/ \E t \in TIDs : AcceptReturn(t)

Spec == Init /\ [][Next]_vars

\* Every thread that can take a step is eventually scheduled (the control
\* thread, each worker thread, each accept thread); new calls and incoming
\* connections are up to the environment.
FairSpec ==
    /\ Spec
    /\ WF_vars(CallerStep)
    /\ \A t \in TIDs : WF_vars(WorkerStep(t))
    /\ \A t \in TIDs : WF_vars(AcceptCheck(t))

\* ------------------------------------------------------------------ claims

\* The most recently completed call.
LastCall == callLog[Len(callLog)]

\* Threads that exist and have not left the while loop of runLoop.
AliveThreads == {t \in TIDs : threads[t].pc \in AlivePcs}

\* C1: when stop() is called on a device whose start() succeeded and whose
\* loop is executing ticks, the loop observes the stop signal and exits, and
\* stop() eventually returns with status Offline and isRunning() false.
C1_StopReturns ==
    (callerPc = "stop_thread" /\ workerThread # 0
        /\ threads[workerThread].pc \in LoopPcs)
    ~> (callerPc \in {"idle", "reset_sleep"} /\ status = OFFLINE /\ ~running)

\* C2: after start() has returned success on a device that was not running,
\* and until another call is made, the launched loop is alive: the worker
\* thread exists and has not left the loop of runLoop.
C2_LoopAliveAfterStart ==
    (callerPc = "idle" /\ callLog # <<>> /\ LastCall.op = "start"
        /\ ~LastCall.running0 /\ LastCall.res = SUCCESS)
    => (workerThread # 0 /\ threads[workerThread].pc \in AlivePcs)

\* C3: stop() returns only after the loop has fully exited: no iteration is
\* executing while isRunning() is false, and once stop() has returned with
\* isRunning() false no thread is left that could begin one.
C3_StopAfterLoopExit ==
    /\ ~running => \A t \in TIDs : threads[t].pc \notin LoopPcs
    /\ (~running /\ callerPc \in {"idle", "reset_sleep"})
          => (workerThread = 0 /\ \A t \in TIDs : threads[t].pc = "none")

\* C3 witness: a stop() of a running device has returned.
C3_Witness ==
    /\ callerPc = "idle" /\ ~running
    /\ callLog # <<>> /\ LastCall.op = "stop" /\ LastCall.running0

StartOnRunning ==
    /\ callerPc = "idle" /\ running /\ calls' = calls + 1
    /\ \/ cur'.op = "start"
       \/ cur' = NoCall /\ callLog' # <<>> /\ callLog'[Len(callLog')].op = "start"

\* C5: start() on a running device returns success at once without running
\* initialize(), launching a loop or changing status; two start() calls in a
\* row produce at most one Online callback.
C5_StartIdempotent ==
    /\ [][StartOnRunning =>
            /\ callerPc' = "idle"
            /\ callLog'[Len(callLog')].res = SUCCESS
            /\ UNCHANGED <<status, running, threads, workerThread, serverSocket,
                           cbLog, statusLog>>]_vars
    /\ [](\A i \in DOMAIN callLog :
            (callLog[i].op = "start" /\ callLog[i].running0)
               => /\ callLog[i].res = SUCCESS
                  /\ callLog[i].cbs = 0
                  /\ callLog[i].initRes = "none"
                  /\ ~callLog[i].launched)
    /\ []((Len(callLog) = 2 /\ callLog[1].op = "start" /\ callLog[2].op = "start")
            => callLog[1].online + callLog[2].online <= 1)

\* C5 witness: a start() that brought the device Online, directly followed by
\* a start() on the running device.
C5_Witness ==
    /\ Len(callLog) = 2 /\ callerPc = "idle"
    /\ callLog[1].op = "start" /\ callLog[1].online = 1
    /\ callLog[2].op = "start" /\ callLog[2].running0

\* C6 as stated: once status is Error only stop() changes it, to Offline.
C6_OnlyStopLeavesError ==
    [][(status = ERROR /\ status' # ERROR)
          => (status' = OFFLINE /\ callerPc = "stop_status_wr")]_vars

\* C6 amended: status leaves Error only through stop() (to Offline) or through
\* a start() of a device that is not running whose initialize() and thread
\* launch succeeded (to Online, with no stop() in between); it stays Error
\* through successful ticks and start() calls on the running device.
C6_ErrorSticky ==
    [][(status = ERROR /\ status' # ERROR)
          => \/ status' = OFFLINE /\ callerPc = "stop_status_wr"
             \/ /\ status' = ONLINE /\ callerPc = "start_status_wr"
                /\ ~running /\ cur.launched]_vars

\* C6 witness: status is Error, the loop has since completed an iteration
\* without a fault, and a start() on the running device has returned.
C6_Witness ==
    /\ status = ERROR
    /\ \E t \in TIDs : threads[t].pc = "sleep"
    /\ callLog # <<>> /\ LastCall.op = "start" /\ LastCall.running0
    /\ LastCall.status0 = ERROR

\* C7: a fault inside an iteration of the loop is caught there and sets status
\* to Error, and while the device stays running another iteration follows.
C7_FaultKeepsLoop ==
    /\ \A t \in TIDs :
          (threads[t].pc = "caught") ~> (threads[t].pc = "tick" \/ ~running)
    /\ [](\A t \in TIDs : threads[t].pc = "fault_sleep" => status = ERROR)

\* C7 witness: an iteration begins while status is Error, i.e. after a fault.
C7_Witness == \E t \in TIDs : threads[t].pc = "tick" /\ status = ERROR

\* The call records of the calls completed and in progress.
CallRecords == {callLog[i] : i \in DOMAIN callLog} \cup {cur}

\* C8: if initialize() fails, start() returns that failure code, launches no
\* loop, leaves isRunning() false and status at its prior value, and no status
\* callback fires.
C8_InitFailure ==
    /\ [][(callerPc = "start_init" /\ callerPc' = "idle")
            => /\ callLog'[Len(callLog')].res # SUCCESS
               /\ callLog'[Len(callLog')].res = callLog'[Len(callLog')].initRes
               /\ ~running'
               /\ UNCHANGED <<status, cbLog, threads, workerThread>>
               /\ \A t \in TIDs : threads'[t].pc = "none"
               /\ cur.op = "start" => (status' = cur.status0 /\ Len(cbLog') = cur.cb0)]_vars
    /\ [](\A c \in CallRecords :
            /\ c.launched => c.initRes = SUCCESS
            /\ c.initRes \notin {"none", SUCCESS} => (c # cur /\ c.res = c.initRes))

\* C8 witness: start() has returned CONNECTION_FAILED on a device whose status
\* was Error before the call and still is.
C8_Witness ==
    /\ callerPc = "idle" /\ callLog # <<>>
    /\ LastCall.op = "start" /\ LastCall.res = CONNECTION_FAILED
    /\ LastCall.status0 = ERROR /\ status = ERROR

C10_OneLoop == Cardinality(AliveThreads) <= 1

\* C10 witness: a loop is executing an iteration after an earlier loop of the
\* same device was stopped.
C10_Witness ==
    /\ \E t \in TIDs : threads[t].pc \in LoopPcs
    /\ \E i \in DOMAIN callLog : callLog[i].op \in {"stop", "reset"} /\ callLog[i].running0

\* ------------------------------------------------------ the data collector

\* std::find_if over devices_ for the name n: the index of the first device
\* with that name, 0 for devices_.end().
FindByName(n) ==
    IF \E i \in DOMAIN devices : dName[devices[i]] = n
    THEN CHOOSE i \in DOMAIN devices :
            /\ dName[devices[i]] = n
            /\ \A j \in DOMAIN devices : dName[devices[j]] = n => i <= j
    ELSE 0

\* std::vector::erase of the element at index i.
Erase(seq, i) == SubSeq(seq, 1, i - 1) \o SubSeq(seq, i + 1, Len(seq))

\* Device object d is an element of devices_.
InVector(d) == \E i \in DOMAIN devices : devices[i] = d

\* What Device::start() can do to a device that is not running: fail in
\* initialize(), throw at the thread launch (status ERROR), leave the worker
\* in its loop, or leave a worker that tested running_ before start() set it
\* and has exited.
StartOutcomes == {"failed", "threw", "looping", "exited"}

\* Device::start() on device object d with outcome o.
DeviceStarted(d, o) ==
    IF dRunning[d] \/ o = "failed"
    THEN UNCHANGED <<dRunning, dAlive, dStatus>>
    ELSE IF o = "threw"
    THEN /\ dStatus' = [dStatus EXCEPT ![d] = ERROR]
         /\ UNCHANGED <<dRunning, dAlive>>
    ELSE /\ dRunning' = [dRunning EXCEPT ![d] = TRUE]
         /\ dAlive' = [dAlive EXCEPT ![d] = (o = "looping")]
         /\ dStatus' = [dStatus EXCEPT ![d] = ONLINE]

\* Device::stop() on d can return: it joins the worker before it clears
\* running_, so it returns only when the worker is not in its loop.
StopReturns(d) == ~(dRunning[d] /\ dAlive[d])

\* Device::stop() on d has returned: nothing happens to a device that is
\* not running, a running one ends OFFLINE.
DeviceStopped(d) ==
    /\ dRunning' = [dRunning EXCEPT ![d] = FALSE]
    /\ dAlive' = [dAlive EXCEPT ![d] = FALSE]
    /\ dStatus' = [dStatus EXCEPT ![d] = IF dRunning[d] THEN OFFLINE ELSE @]

\* The collector thread after the control thread has changed devices_: a
\* change made while updateLoop iterates invalidates its iterator.
Disturbed == [cThread EXCEPT !.raced = @ \/ cThread.pc \in {"iter", "status"}]

\* The ways erase() of the shared_ptr to device o can end, as the next position
\* of the control thread. When the vector held the last reference the device
\* is destroyed: ~Device calls stop(), which does nothing on a stopped device,
\* blocks in join() when the worker is in its loop, and otherwise goes on to
\* the pure virtual cleanup() (undefined: the call aborts or returns).
AfterRelease(o, next) ==
    IF o \in held \/ o = cArg.dev \/ ~dRunning[o] THEN {next}
    ELSE IF dAlive[o] THEN {"blocked"}
    ELSE {"crashed", next}

\* A call of DataCollector::addDevice(device); d = 0 is the null pointer, keep
\* says whether the caller keeps its shared_ptr after the call.
CallAddDevice ==
    /\ cPc = "idle"
    /\ cOps < MaxOps
    /\ cOps' = cOps + 1
    /\ cLast' = NoAdd
    /\ \E d \in held \cup {0}, keep \in BOOLEAN :
         IF d = 0
         THEN UNCHANGED <<cPc, cArg>>
         ELSE /\ cPc' = "add_find"
              /\ cArg' = [NoArg EXCEPT !.dev = d, !.name = dName[d], !.keep = keep,
                                     !.wasRunning = cRunning]
    /\ UNCHANGED <<outsideCollector, cDiag, devices, cRunning, cThread, held, dName,
                   dRunning, dAlive, dStatus>>

\* addDevice: find_if for a device with the same name.
AddFind ==
    /\ cPc = "add_find"
    /\ cArg' = [cArg EXCEPT !.it = FindByName(cArg.name),
                            !.old = IF FindByName(cArg.name) = 0 THEN 0
                                    ELSE devices[FindByName(cArg.name)]]
    /\ cPc' = IF FindByName(cArg.name) = 0 THEN "add_push" ELSE "add_erase"
    /\ UNCHANGED <<outsideCollector, cDiag, devices, cRunning, cThread, held, dName,
                   dRunning, dAlive, dStatus, cOps, cLast>>

\* addDevice: devices_.erase(it) of the device with the same name; stop() is
\* not called on it, it runs only if this destroys the device.
AddErase ==
    /\ cPc = "add_erase"
    /\ devices' = Erase(devices, cArg.it)
    /\ cThread' = Disturbed
    /\ cPc' \in AfterRelease(cArg.old, "add_push")
    /\ IF cArg.old \notin held /\ cArg.old # cArg.dev
       THEN DeviceStopped(cArg.old)
       ELSE UNCHANGED <<dRunning, dAlive, dStatus>>
    /\ UNCHANGED <<outsideCollector, cDiag, cRunning, cArg, held, dName, cOps, cLast>>

\* addDevice: devices_.push_back(device).
AddPush ==
    /\ cPc = "add_push"
    /\ devices' = Append(devices, cArg.dev)
    /\ cThread' = Disturbed
    /\ cPc' = "add_start"
    /\ UNCHANGED <<outsideCollector, cDiag, cRunning, cArg, held, dName, dRunning, dAlive, dStatus,
                   cOps, cLast>>

\* addDevice: the condition under which device->start() is called.
StartsAddedDevice_Always == TRUE
StartsAddedDevice == cRunning

\* addDevice: `if (running_) device->start();` and the return; the caller
\* then keeps or drops its own shared_ptr.
AddStart ==
    /\ cPc = "add_start"
    /\ IF StartsAddedDevice
       THEN \E o \in StartOutcomes : DeviceStarted(cArg.dev, o)
       ELSE UNCHANGED <<dRunning, dAlive, dStatus>>
    /\ cLast' = [dev |-> cArg.dev, old |-> cArg.old,
                 oldRunning |-> (cArg.old # 0 /\ dRunning[cArg.old]),
                 started |-> StartsAddedDevice,
                 wasRunning |-> cArg.wasRunning]
    /\ held' = IF cArg.keep THEN held ELSE held \ {cArg.dev}
    /\ cArg' = NoArg
    /\ cPc' = "idle"
    /\ UNCHANGED <<outsideCollector, cDiag, devices, cRunning, cThread, dName, cOps>>

\* A call of DataCollector::removeDevice(deviceName).
CallRemoveDevice ==
    /\ cPc = "idle"
    /\ cOps < MaxOps
    /\ cOps' = cOps + 1
    /\ cLast' = NoAdd
    /\ \E n \in Names : cArg' = [NoArg EXCEPT !.name = n]
    /\ cPc' = "rm_find"
    /\ UNCHANGED <<outsideCollector, cDiag, devices, cRunning, cThread, held, dName,
                   dRunning, dAlive, dStatus>>

\* removeDevice: find_if for the name; the return when there is no such device.
RemoveFind ==
    /\ cPc = "rm_find"
    /\ IF FindByName(cArg.name) = 0
       THEN /\ cArg' = NoArg
            /\ cPc' = "idle"
       ELSE /\ cArg' = [cArg EXCEPT !.it = FindByName(cArg.name),
                                    !.old = devices[FindByName(cArg.name)]]
            /\ cPc' = "rm_stop"
    /\ UNCHANGED <<outsideCollector, cDiag, devices, cRunning, cThread, held, dName,
                   dRunning, dAlive, dStatus, cOps, cLast>>

\* removeDevice: (*it)->stop().
RemoveStop ==
    /\ cPc = "rm_stop"
    /\ StopReturns(cArg.old)
    /\ DeviceStopped(cArg.old)
    /\ cPc' = "rm_erase"
    /\ UNCHANGED <<outsideCollector, cDiag, devices, cRunning, cThread, cArg, held, dName,
                   cOps, cLast>>

\* removeDevice: devices_.erase(it) and the return.
RemoveErase ==
    /\ cPc = "rm_erase"
    /\ devices' = Erase(devices, cArg.it)
    /\ cThread' = Disturbed
    /\ cArg' = NoArg
    /\ cPc' = "idle"
    /\ UNCHANGED <<outsideCollector, cDiag, cRunning, held, dName, dRunning, dAlive, dStatus, cOps,
                   cLast>>

\* DataCollector::start() that also starts the devices of the set.
CollectorStart_StartsDevices ==
    /\ cPc = "idle"
    /\ cOps < MaxOps
    /\ cOps' = cOps + 1
    /\ IF cRunning
       THEN UNCHANGED <<cRunning, cThread, dRunning, dAlive, dStatus>>
       ELSE /\ cRunning' = TRUE
            /\ cThread' = [NoCollectorThread EXCEPT !.pc = "check"]
            /\ dRunning' = [d \in Devs |-> dRunning[d] \/ InVector(d)]
            /\ dAlive' = [d \in Devs |-> dAlive[d] \/ (InVector(d) /\ ~dRunning[d])]
            /\ dStatus' = [d \in Devs |-> IF InVector(d) /\ ~dRunning[d] THEN ONLINE
                                          ELSE dStatus[d]]
    /\ UNCHANGED <<outsideCollector, cDiag, devices, cPc, cArg, held, dName, cLast>>

\* A call of DataCollector::start(): running_ = true, then startThread(); when
\* the thread cannot be created the catch block resets running_.
CollectorStart ==
    /\ cPc = "idle"
    /\ cOps < MaxOps
    /\ cOps' = cOps + 1
    /\ IF cRunning
       THEN UNCHANGED <<cRunning, cThread>>
       ELSE \E ok \in BOOLEAN :
              /\ cRunning' = ok
              /\ cThread' = IF ok THEN [NoCollectorThread EXCEPT !.pc = "check"]
                            ELSE NoCollectorThread
    /\ UNCHANGED <<outsideCollector, cDiag, devices, cPc, cArg, held, dName, dRunning,
                   dAlive, dStatus, cLast>>

\* A call of DataCollector::stop(): running_ = false, then stopThread().
CollectorStop ==
    /\ cPc = "idle"
    /\ cOps < MaxOps
    /\ cOps' = cOps + 1
    /\ IF cRunning
       THEN /\ cRunning' = FALSE
            /\ cPc' = "stop_join"
       ELSE UNCHANGED <<cRunning, cPc>>
    /\ UNCHANGED <<outsideCollector, cDiag, devices, cThread, cArg, held, dName, dRunning,
                   dAlive, dStatus, cLast>>

\* DataCollector::stopThread: collectorThread_.join() returns once collectLoop
\* has returned.
CollectorStopJoin ==
    /\ cPc = "stop_join"
    /\ cThread.pc = "done"
    /\ cThread' = NoCollectorThread
    /\ cPc' = "idle"
    /\ UNCHANGED <<outsideCollector, cDiag, devices, cRunning, cArg, held, dName, dRunning,
                   dAlive, dStatus, cOps, cLast>>

\* The owner of a device object calls start() on it directly.
OwnerStartsDevice ==
    /\ cPc = "idle"
    /\ cOps < MaxOps
    /\ cOps' = cOps + 1
    /\ \E d \in held, o \in StartOutcomes : DeviceStarted(d, o)
    /\ UNCHANGED <<outsideCollector, cDiag, devices, cRunning, cThread, cPc, cArg, held,
                   dName, cLast>>

\* collectLoop: the test of `while (running_)`; then updateLoop() begins its
\* range-for over devices_.
CollectCheck ==
    /\ cThread.pc = "check"
    /\ cThread' = IF cRunning THEN [pc |-> "iter", idx |-> 1, raced |-> FALSE]
                  ELSE [cThread EXCEPT !.pc = "done"]
    /\ cDiag' = NoExam
    /\ UNCHANGED <<outsideCollector, devices, cRunning, cPc, cArg, held, dName,
                   dRunning, dAlive, dStatus, cOps, cLast>>

\* updateLoop: the range-for comes to its next device and tests
\* `device && device->isRunning()`, or it comes to the end of devices_.
UpdateVisit ==
    /\ cThread.pc = "iter"
    /\ ~cThread.raced
    /\ IF cThread.idx > Len(devices)
       THEN /\ cThread' = [cThread EXCEPT !.pc = "sleep", !.idx = 0]
            /\ cDiag' = NoExam
       ELSE IF dRunning[devices[cThread.idx]]
       THEN /\ cThread' = [cThread EXCEPT !.pc = "status"]
            /\ cDiag' = NoExam
       ELSE /\ cThread' = [cThread EXCEPT !.idx = @ + 1]
            /\ cDiag' = [dev |-> devices[cThread.idx], ran |-> FALSE,
                         st |-> dStatus[devices[cThread.idx]], emitted |-> FALSE]
    /\ UNCHANGED <<outsideCollector, devices, cRunning, cPc, cArg, held, dName,
                   dRunning, dAlive, dStatus, cOps, cLast>>

\* updateLoop: the test that decides whether the line about the device is
\* written, given the status read.
WritesDiagnostic_AnyRunning(st, ran) == ran
WritesDiagnostic(st, ran) == ran /\ st = ERROR

\* updateLoop, for a device whose isRunning() was true:
\* `if (device->getStatus() == DeviceStatus::ERROR)` and the line it writes.
UpdateStatus ==
    /\ cThread.pc = "status"
    /\ ~cThread.raced
    /\ cThread' = [cThread EXCEPT !.pc = "iter", !.idx = @ + 1]
    /\ cDiag' = [dev |-> devices[cThread.idx], ran |-> TRUE,
                 st |-> dStatus[devices[cThread.idx]],
                 emitted |-> WritesDiagnostic(dStatus[devices[cThread.idx]], TRUE)]
    /\ UNCHANGED <<outsideCollector, devices, cRunning, cPc, cArg, held, dName,
                   dRunning, dAlive, dStatus, cOps, cLast>>

\* updateLoop going on with an iterator that a concurrent erase or push_back
\* invalidated (undefined behaviour): it may crash, or come to the end of
\* its loop.
UpdateInvalidated ==
    /\ cThread.pc \in {"iter", "status"}
    /\ cThread.raced
    /\ \E out \in {"crashed", "sleep"} :
         cThread' = [pc |-> out, idx |-> 0, raced |-> FALSE]
    /\ cDiag' = NoExam
    /\ UNCHANGED <<outsideCollector, devices, cRunning, cPc, cArg, held, dName,
                   dRunning, dAlive, dStatus, cOps, cLast>>

\* collectLoop: sleep_for(collectionInterval_), then the loop test again.
CollectSleep ==
    /\ cThread.pc = "sleep"
    /\ cThread' = [cThread EXCEPT !.pc = "check"]
    /\ cDiag' = NoExam
    /\ UNCHANGED <<outsideCollector, devices, cRunning, cPc, cArg, held, dName,
                   dRunning, dAlive, dStatus, cOps, cLast>>

\* The run loop of device d catches an exception: updateStatus(ERROR), and
\* the loop goes on.
DeviceFault(d) ==
    /\ dRunning[d] /\ dAlive[d]
    /\ dStatus[d] = ONLINE
    /\ dStatus' = [dStatus EXCEPT ![d] = ERROR]
    /\ UNCHANGED <<outsideCollector, devices, cRunning, cThread, cPc, cArg, held,
                   dName, dRunning, dAlive, cDiag, cOps, cLast>>

\* The caller's device objects, each with the name its configuration gives it.
CollectorInit ==
    /\ kind = "modbus"
    /\ DeviceIdle
    /\ ClientsIdle
    /\ MessagesIdle
    /\ RegistersIdle
    /\ SimulatorsIdle
    /\ devices = <<>>
    /\ cRunning = FALSE
    /\ cThread = NoCollectorThread
    /\ cPc = "idle"
    /\ cArg = NoArg
    /\ held = Devs
    /\ dName \in [Devs -> Names]
    /\ dRunning = [d \in Devs |-> FALSE]
    /\ dAlive = [d \in Devs |-> FALSE]
    /\ dStatus = [d \in Devs |-> OFFLINE]
    /\ cDiag = NoExam
    /\ cOps = 0
    /\ cLast = NoAdd

CollectorNext ==
    \/ CallAddDevice
    \/ AddFind
    \/ AddErase
    \/ AddPush
    \/ AddStart
    \/ CallRemoveDevice
    \/ RemoveFind
    \/ RemoveStop
    \/ RemoveErase
    \/ CollectorStart
    \/ CollectorStop
    \/ CollectorStopJoin
    \/ OwnerStartsDevice
    \/ CollectCheck
    \/ UpdateVisit
    \/ UpdateStatus
    \/ UpdateInvalidated
    \/ CollectSleep
    \/ \E d \in Devs : DeviceFault(d)

CollectorSpec == CollectorInit /\ [][CollectorNext]_vars

\* The steps of the thread that calls the collector, inside a call.
ControlStep ==
    \/ AddFind
    \/ AddErase
    \/ AddPush
    \/ AddStart
    \/ RemoveFind
    \/ RemoveStop
    \/ RemoveErase
    \/ CollectorStopJoin

\* The steps of the collector thread.
CollectorThreadStep ==
    \/ CollectCheck
    \/ UpdateVisit
    \/ UpdateStatus
    \/ UpdateInvalidated
    \/ CollectSleep

\* Both threads are scheduled whenever they can take a step; new calls and
\* device faults are up to the environment.
FairCollectorSpec ==
    /\ CollectorSpec
    /\ WF_vars(ControlStep)
    /\ WF_vars(CollectorThreadStep)

\* C11: addDevice(d) when another device with the same name is in the
\* collector: afterwards the set holds d and no longer the old device, and
\* when the collector is running the old device has been stopped before d
\* is started.
C11_ReplaceStopsOld ==
    (cPc = "idle" /\ cLast.old # 0 /\ cLast.old # cLast.dev)
       => /\ InVector(cLast.dev)
          /\ ~InVector(cLast.old)
          /\ cLast.started => ~cLast.oldRunning

\* C12: the device set is never modified while a supervisory tick
\* (updateLoop) is iterating over it.
C12_ExclusiveDeviceSet ==
    [][devices' # devices => cThread.pc \notin {"iter", "status"}]_vars

\* ------------------------------------- the clients of a running socket device
\* The device is running throughout: its loop and its accept thread test
\* running_ as true (running_ is cleared only after both have been joined).

\* accept() returns the lowest descriptor number that is not in use.
LowestFree ==
    CHOOSE f \in Fds : fdConn[f] = 0 /\ \A g \in Fds : fdConn[g] = 0 => f <= g

\* The next connection waiting in the listen queue.
NextPending ==
    CHOOSE c \in Conns :
        connState[c] = "pending" /\ \A d \in Conns : connState[d] = "pending" => c <= d

\* The results send() on descriptor f can have (TRUE: bytes were sent): it
\* fails on a closed descriptor, succeeds on an open connection, and may do
\* either once the peer has closed.
SendResults(f) ==
    IF fdConn[f] = 0 THEN {FALSE}
    ELSE IF connState[fdConn[f]] = "open" THEN {TRUE}
    ELSE BOOLEAN

\* lastWrite after a write to descriptor f with result ok.
MarkWrite(f, ok) ==
    IF fdConn[f] = 0 THEN lastWrite
    ELSE [lastWrite EXCEPT ![fdConn[f]] = IF ok THEN "ok" ELSE "failed"]

\* close(f): the descriptor number becomes free, its connection is gone.
ClosedFd(f) == [fdConn EXCEPT ![f] = 0]
ClosedWrite(f) ==
    IF fdConn[f] = 0 THEN lastWrite ELSE [lastWrite EXCEPT ![fdConn[f]] = "ok"]
ClosedDropped(f) == dropped \ {fdConn[f]}
ClosedConn(f) ==
    IF fdConn[f] = 0 THEN connState ELSE [connState EXCEPT ![fdConn[f]] = "gone"]

\* std::find over clientSockets_: index of the first element equal to f, or 0.
FindFd(f) ==
    IF \E i \in DOMAIN clientSockets : clientSockets[i] = f
    THEN CHOOSE i \in DOMAIN clientSockets :
            /\ clientSockets[i] = f
            /\ \A j \in DOMAIN clientSockets : clientSockets[j] = f => i <= j
    ELSE 0

\* std::lock_guard<std::mutex> lock(clientsMutex_) can be constructed.
CanLock_NoMutex == TRUE
CanLock == clientsMutex = Nobody

\* acceptConnections: accept() returns a new connection.
AcceptConnection ==
    /\ acc.pc = "accept"
    /\ cleaner # "done"
    /\ \E f \in Fds : fdConn[f] = 0
    /\ \E c \in Conns : connState[c] = "pending"
    /\ fdConn' = [fdConn EXCEPT ![LowestFree] = NextPending]
    /\ connState' = [connState EXCEPT ![NextPending] = "open"]
    /\ acc' = [pc |-> "lock", fd |-> LowestFree, conn |-> NextPending]
    /\ UNCHANGED <<outsideClients, clientSockets, clientsMutex, handlers, bc, cleaner,
                   sentLog, snapshot, lastWrite, dropped>>

\* acceptConnections: lock_guard on clientsMutex_.
AcceptLock ==
    /\ acc.pc = "lock"
    /\ CanLock
    /\ clientsMutex' = [who |-> "accept", id |-> 0]
    /\ acc' = [acc EXCEPT !.pc = "insert"]
    /\ UNCHANGED <<outsideClients, clientSockets, fdConn, connState, handlers, bc,
                   cleaner, sentLog, snapshot, lastWrite, dropped>>

\* acceptConnections: clientSockets_.push_back(clientSocket), end of the scope.
AcceptInsert ==
    /\ acc.pc = "insert"
    /\ clientSockets' = Append(clientSockets, acc.fd)
    /\ clientsMutex' = Nobody
    /\ acc' = [acc EXCEPT !.pc = "spawn"]
    /\ UNCHANGED <<outsideClients, fdConn, connState, handlers, bc, cleaner, sentLog,
                   snapshot, lastWrite, dropped>>

\* acceptConnections: the detached thread running handleClient(clientSocket).
AcceptSpawn ==
    /\ acc.pc = "spawn"
    /\ handlers' = [handlers EXCEPT ![acc.conn] = [pc |-> "recv", fd |-> acc.fd, det |-> 0]]
    /\ acc' = [pc |-> "accept", fd |-> 0, conn |-> 0]
    /\ UNCHANGED <<outsideClients, clientSockets, clientsMutex, fdConn, connState, bc,
                   cleaner, sentLog, snapshot, lastWrite, dropped>>

\* The peer of connection c closes it.
PeerCloses(c) ==
    /\ connState[c] = "open"
    /\ connState' = [connState EXCEPT ![c] = "closed"]
    /\ UNCHANGED <<outsideClients, clientSockets, clientsMutex, fdConn, handlers, acc,
                   bc, cleaner, sentLog, snapshot, lastWrite, dropped>>

\* handleClient: recv() returns a request (bytesReceived > 0).
HandlerRecvData(c) ==
    /\ handlers[c].pc = "recv"
    /\ fdConn[handlers[c].fd] # 0
    /\ handlers' = [handlers EXCEPT ![c].pc = "reply"]
    /\ UNCHANGED <<outsideClients, clientSockets, clientsMutex, fdConn, connState, acc,
                   bc, cleaner, sentLog, snapshot, lastWrite, dropped>>

\* handleClientRequest: the reply written by sendCurrentDataToClient,
\* sendStatusToClient or sendErrorToClient; the result of send() is not looked at.
HandlerReply(c) ==
    /\ handlers[c].pc = "reply"
    /\ \E ok \in SendResults(handlers[c].fd) :
         lastWrite' = MarkWrite(handlers[c].fd, ok)
    /\ handlers' = [handlers EXCEPT ![c].pc = "recv"]
    /\ UNCHANGED <<outsideClients, clientSockets, clientsMutex, fdConn, connState, acc,
                   bc, cleaner, sentLog, snapshot, dropped>>

\* handleClient: recv() returns 0, the peer has closed; break.
HandlerRecvZero(c) ==
    /\ handlers[c].pc = "recv"
    /\ fdConn[handlers[c].fd] # 0
    /\ connState[fdConn[handlers[c].fd]] = "closed"
    /\ handlers' = [handlers EXCEPT ![c].pc = "detected",
                                    ![c].det = fdConn[handlers[c].fd]]
    /\ UNCHANGED <<outsideClients, clientSockets, clientsMutex, fdConn, connState, acc,
                   bc, cleaner, sentLog, snapshot, lastWrite, dropped>>

\* handleClient after the loop: lock_guard on clientsMutex_.
HandlerLock(c) ==
    /\ handlers[c].pc = "detected"
    /\ CanLock
    /\ clientsMutex' = [who |-> "handler", id |-> c]
    /\ handlers' = [handlers EXCEPT ![c].pc = "erase"]
    /\ UNCHANGED <<outsideClients, clientSockets, fdConn, connState, acc, bc, cleaner,
                   sentLog, snapshot, lastWrite, dropped>>

\* handleClient: std::find of its descriptor and erase, end of the scope.
HandlerErase(c) ==
    /\ handlers[c].pc = "erase"
    /\ clientSockets' = IF FindFd(handlers[c].fd) = 0 THEN clientSockets
                        ELSE Erase(clientSockets, FindFd(handlers[c].fd))
    /\ clientsMutex' = Nobody
    /\ dropped' = IF handlers[c].det = c THEN dropped \cup {c} ELSE dropped
    /\ handlers' = [handlers EXCEPT ![c].pc = "close"]
    /\ UNCHANGED <<outsideClients, fdConn, connState, acc, bc, cleaner, sentLog,
                   snapshot, lastWrite>>

\* handleClient: close(clientSocket) and the end of the thread.
HandlerClose(c) ==
    /\ handlers[c].pc = "close"
    /\ fdConn' = ClosedFd(handlers[c].fd)
    /\ connState' = ClosedConn(handlers[c].fd)
    /\ lastWrite' = ClosedWrite(handlers[c].fd)
    /\ dropped' = ClosedDropped(handlers[c].fd)
    /\ handlers' = [handlers EXCEPT ![c] = [pc |-> "done", fd |-> 0, det |-> 0]]
    /\ UNCHANGED <<outsideClients, clientSockets, clientsMutex, acc, bc, cleaner,
                   sentLog, snapshot>>

\* broadcastToClients: lock_guard on clientsMutex_, it = begin().
BroadcastLock ==
    /\ bc.pc = "idle"
    /\ CanLock
    /\ clientsMutex' = [who |-> "broadcast", id |-> 0]
    /\ bc' = [pc |-> "send", idx |-> 1]
    /\ snapshot' = clientSockets
    /\ sentLog' = <<>>
    /\ UNCHANGED <<outsideClients, clientSockets, fdConn, connState, handlers, acc,
                   cleaner, lastWrite, dropped>>

\* broadcastToClients: the iterator after `it = clientSockets_.erase(it)`.
AfterErase_Skip(i) == i + 1
AfterErase(i) == i

\* broadcastToClients: one pass of the while loop: send() to *it; on failure
\* close() and erase(), else ++it.
BroadcastSend ==
    /\ bc.pc = "send"
    /\ bc.idx <= Len(clientSockets)
    /\ LET f == clientSockets[bc.idx] IN
         \E ok \in SendResults(f) :
           /\ sentLog' = Append(sentLog, [fd |-> f, conn |-> fdConn[f], ok |-> ok,
                                          late |-> fdConn[f] \in dropped,
                                          closed |-> ~ok])
           /\ IF ok
              THEN /\ bc' = [bc EXCEPT !.idx = @ + 1]
                   /\ lastWrite' = MarkWrite(f, ok)
                   /\ UNCHANGED <<clientSockets, fdConn, connState, dropped>>
              ELSE /\ fdConn' = ClosedFd(f)
                   /\ lastWrite' = ClosedWrite(f)
                   /\ dropped' = ClosedDropped(f)
                   /\ connState' = ClosedConn(f)
                   /\ clientSockets' = Erase(clientSockets, bc.idx)
                   /\ bc' = [bc EXCEPT !.idx = AfterErase(bc.idx)]
    /\ UNCHANGED <<outsideClients, clientsMutex, handlers, acc, cleaner, snapshot>>

\* broadcastToClients: it == end(), the lock_guard is released.
BroadcastUnlock ==
    /\ bc.pc = "send"
    /\ bc.idx > Len(clientSockets)
    /\ clientsMutex' = Nobody
    /\ bc' = [pc |-> "idle", idx |-> 0]
    /\ sentLog' = <<>>
    /\ snapshot' = <<>>
    /\ UNCHANGED <<outsideClients, clientSockets, fdConn, connState, handlers, acc,
                   cleaner, lastWrite, dropped>>

\* stopSocketServer (from cleanup()): lock_guard on clientsMutex_.
CleanupLock ==
    /\ cleaner = "none"
    /\ CanLock
    /\ clientsMutex' = [who |-> "cleanup", id |-> 0]
    /\ cleaner' = "clear"
    /\ UNCHANGED <<outsideClients, clientSockets, fdConn, connState, handlers, acc, bc,
                   sentLog, snapshot, lastWrite, dropped>>

\* stopSocketServer: close() of every client, clientSockets_.clear(), end of
\* the scope; then the server socket is closed.
CleanupClear ==
    /\ cleaner = "clear"
    /\ fdConn' = [f \in Fds |->
                    IF \E i \in DOMAIN clientSockets : clientSockets[i] = f
                    THEN 0 ELSE fdConn[f]]
    /\ connState' = [c \in Conns |->
                       IF \E i \in DOMAIN clientSockets : fdConn[clientSockets[i]] = c
                       THEN "gone" ELSE connState[c]]
    /\ clientSockets' = <<>>
    /\ clientsMutex' = Nobody
    /\ lastWrite' = [c \in Conns |->
                       IF \E i \in DOMAIN clientSockets : fdConn[clientSockets[i]] = c
                       THEN "ok" ELSE lastWrite[c]]
    /\ dropped' = {c \in dropped :
                       \A i \in DOMAIN clientSockets : fdConn[clientSockets[i]] # c}
    /\ cleaner' = "done"
    /\ UNCHANGED <<outsideClients, handlers, acc, bc, sentLog, snapshot>>

\* A socket device that has been started: the accept thread waits in accept(),
\* the loop is between two broadcasts, no client has connected yet.
ClientInit ==
    /\ kind = "socket"
    /\ DeviceIdle
    /\ CollectorIdle
    /\ MessagesIdle
    /\ RegistersIdle
    /\ SimulatorsIdle
    /\ clientSockets = <<>>
    /\ clientsMutex = Nobody
    /\ fdConn = [f \in Fds |-> 0]
    /\ connState = [c \in Conns |-> "pending"]
    /\ handlers = [c \in Conns |-> NoHandler]
    /\ acc = [pc |-> "accept", fd |-> 0, conn |-> 0]
    /\ bc = [pc |-> "idle", idx |-> 0]
    /\ cleaner = "none"
    /\ sentLog = <<>>
    /\ snapshot = <<>>
    /\ lastWrite = [c \in Conns |-> "ok"]
    /\ dropped = {}

ClientNext ==
    \/ AcceptConnection
    \/ AcceptLock
    \/ AcceptInsert
    \/ AcceptSpawn
    \/ \E c \in Conns : PeerCloses(c)
    \/ \E c \in Conns : HandlerRecvData(c)
    \/ \E c \in Conns : HandlerReply(c)
    \/ \E c \in Conns : HandlerRecvZero(c)
    \/ \E c \in Conns : HandlerLock(c)
    \/ \E c \in Conns : HandlerErase(c)
    \/ \E c \in Conns : HandlerClose(c)
    \/ BroadcastLock
    \/ BroadcastSend
    \/ BroadcastUnlock
    \/ CleanupLock
    \/ CleanupClear

ClientSpec == ClientInit /\ [][ClientNext]_vars

\* Number of threads that are inside clientSockets_ (between taking and
\* releasing the lock around their access).
InsideCount ==
    (IF acc.pc = "insert" THEN 1 ELSE 0)
    + Cardinality({c \in Conns : handlers[c].pc = "erase"})
    + (IF bc.pc = "send" THEN 1 ELSE 0)
    + (IF cleaner = "clear" THEN 1 ELSE 0)

\* C13: the accesses to the client set (insert by the accept thread, removal
\* by a failed broadcast, removal by a handler, clearing on stop, the
\* broadcast's iteration) are serialized: at most one thread is inside the
\* set at any time, and it is the holder of clientsMutex_.
C13_ClientSetSerialized ==
    /\ InsideCount <= 1
    /\ InsideCount = 1 <=> clientsMutex # Nobody

\* C13 witness: a broadcast is iterating while the accept thread and a
\* handler that detected a disconnect both wait for the set.
C13_Witness ==
    /\ bc.pc = "send"
    /\ acc.pc = "lock"
    /\ \E c \in Conns : handlers[c].pc = "detected"

\* C14: the client set contains no channel whose most recent write (broadcast
\* or reply to a request) failed.
C14_NoFailedChannelInSet ==
    \A i \in DOMAIN clientSockets :
        fdConn[clientSockets[i]] # 0 => lastWrite[fdConn[clientSockets[i]]] # "failed"

\* The descriptors of the send attempts in log that succeeded, in order.
RECURSIVE OkFds(_)
OkFds(log) ==
    IF log = <<>> THEN <<>>
    ELSE (IF Head(log).ok THEN <<Head(log).fd>> ELSE <<>>) \o OkFds(Tail(log))

C16_DroppedClientNotSentTo ==
    /\ \A c \in dropped :
          \A i \in DOMAIN clientSockets : fdConn[clientSockets[i]] # c
    /\ \A i \in DOMAIN sentLog : ~sentLog[i].late

\* ------------------------------------------- the strings of socket_device.cpp
DATA_STR == <<"D", "A", "T", "A">>
STATUS_STR == <<"S", "T", "A", "T", "U", "S">>
ERROR_STR == <<"E", "R", "R", "O", "R">>
MSG_STR == <<"M", "S", "G">>
BROADCAST_STR == <<"B", "R", "O", "A", "D", "C", "A", "S", "T">>
UNKNOWN_REQUEST == <<"u672A", "u77E5", "u8BF7", "u6C42", ":", " ">>
COUNT_UNIT == <<"u8BA1", "u6570">>

\* ------------------------------------------- the text protocol of SocketDevice
NL == "\n"
\* The byte 0, which ends a C string.
NUL == "nul"

Digit(d) == <<"0", "1", "2", "3", "4", "5", "6", "7", "8", "9">>[d + 1]

\* std::to_string(int) of a value >= 0.
RECURSIVE to_string(_)
to_string(n) == IF n < 10 THEN <<Digit(n)>> ELSE to_string(n \div 10) \o <<Digit(n % 10)>>

\* std::to_string(double) of a whole number: the format is "%f".
to_string_double(n) == to_string(n) \o <<".", "0", "0", "0", "0", "0", "0">>

Pad2(n) == <<Digit(n \div 10), Digit(n % 10)>>

\* Utils::getCurrentTimeString: std::put_time(&tm, "%Y-%m-%d %H:%M:%S").
TimeString(tm) ==
    to_string(tm.year) \o <<"-">> \o Pad2(tm.mon) \o <<"-">> \o Pad2(tm.mday) \o <<" ">>
        \o Pad2(tm.hour) \o <<":">> \o Pad2(tm.min) \o <<":">> \o Pad2(tm.sec)

\* The local times at which a message is written.
Times ==
    {[year |-> 2026, mon |-> 11, mday |-> 4, hour |-> 6, min |-> 0, sec |-> 0],
     [year |-> 2026, mon |-> 12, mday |-> 31, hour |-> 23, min |-> 59, sec |-> 59]}

\* Utils::dataTypeToString.
DataTypeToString(type) ==
    CASE type = "TEMPERATURE" -> <<"t", "e", "m", "p", "e", "r", "a", "t", "u", "r", "e">>
      [] type = "PRESSURE" -> <<"p", "r", "e", "s", "s", "u", "r", "e">>
      [] type = "FLOW" -> <<"f", "l", "o", "w">>
      [] type = "STATUS" -> <<"s", "t", "a", "t", "u", "s">>
      [] type = "CUSTOM" -> <<"c", "u", "s", "t", "o", "m">>
      [] OTHER -> <<"u", "n", "k", "n", "o", "w", "n">>

\* String(buffer): the characters of buffer before the first byte 0.
RECURSIVE CString(_)
CString(b) ==
    IF b = <<>> \/ Head(b) = NUL THEN <<>> ELSE <<Head(b)>> \o CString(Tail(b))

\* The config_.name of the device.
DeviceNames == {<<"p", "l", "c", "1">>, <<"S", "o", "c", "k", "e", "t", " ", "A">>}

\* The byte sequences recv() hands to handleClient (at least one byte each).
FOO_STR == <<"F", "O", "O">>
Buffers ==
    {DATA_STR, STATUS_STR, FOO_STR, DATA_STR \o <<NL>>,
     FOO_STR \o <<NL>> \o DATA_STR, DATA_STR \o <<NUL>> \o FOO_STR,
     <<"d", "a", "t", "a">>, FOO_STR \o <<"|">> \o DATA_STR}

\* The arguments sendMessage is called with.
MessageTypes == {<<"a", "l", "a", "r", "m">>}
MessageData == {<<"o", "k">>, <<"o", "k">> \o <<NL>> \o <<"o", "k">>}

\* The status_ texts SocketDevice::simulateStatus chooses from.
StatusOptions ==
    <<<<"u6B63", "u5E38">>, <<"u8B66", "u544A">>,
      <<"u7EF4", "u62A4">>, <<"u5FD9", "u788C">>>>

\* statusValue_ after statusCounter calls of simulateStatus.
StatusAt(n) ==
    IF n < 200 THEN StatusOptions[1] ELSE StatusOptions[((n \div 200) % 4) + 1]

\* sendCurrentDataToClient: the response string.
SendCurrentDataToClient(tm) ==
    DATA_STR \o <<"|">> \o TimeString(tm) \o <<"|">> \o deviceName \o <<"|">>
        \o to_string(counterValue) \o <<"|">> \o statusValue \o <<NL>>

\* sendStatusToClient: the response string.
SendStatusToClient_CounterFirst(tm) ==
    STATUS_STR \o <<"|">> \o TimeString(tm) \o <<"|">> \o deviceName \o <<"|">>
        \o to_string(counterValue) \o <<"|">> \o statusValue \o <<NL>>
SendStatusToClient(tm) ==
    STATUS_STR \o <<"|">> \o TimeString(tm) \o <<"|">> \o deviceName \o <<"|">>
        \o statusValue \o <<"|">> \o to_string(counterValue) \o <<NL>>

\* sendErrorToClient: the response string.
SendErrorToClient(tm, error) ==
    ERROR_STR \o <<"|">> \o TimeString(tm) \o <<"|">> \o error \o <<NL>>

\* handleClientRequest: the kind and text of the reply to req.
HandleClientRequest(req, tm) ==
    IF req = DATA_STR THEN [kind |-> "DATA", text |-> SendCurrentDataToClient(tm)]
    ELSE IF req = STATUS_STR THEN [kind |-> "STATUS", text |-> SendStatusToClient(tm)]
    ELSE [kind |-> "ERROR", text |-> SendErrorToClient(tm, UNKNOWN_REQUEST \o req)]

\* handleClientRequest: the requests answered by sendCurrentDataToClient or
\* sendStatusToClient, which read counterValue_.
ReadsCounter(req) == req = DATA_STR \/ req = STATUS_STR

\* handleClient: recv() returned the bytes buf; the request is String(buffer),
\* handleClientRequest writes the reply.
HandleClient(buf, tm) ==
    /\ received' = buf
    /\ request' = CString(buf)
    /\ wire' = HandleClientRequest(CString(buf), tm).text
    /\ wireKind' = HandleClientRequest(CString(buf), tm).kind
    /\ seenKinds' = seenKinds \cup {HandleClientRequest(CString(buf), tm).kind}
    /\ counterRead' = IF ReadsCounter(CString(buf)) THEN {counterValue} ELSE NoRead
    /\ passLog' = <<>>
    /\ UNCHANGED <<outsideMessages, deviceName, counterValue, statusValue,
                   statusCounter, sTicks, peerTicks>>

\* sendMessage: the text handed to broadcastToClients.
SendMessage(type, data, tm) ==
    /\ wire' = MSG_STR \o <<"|">> \o type \o <<"|">> \o data \o <<"|">> \o TimeString(tm)
                   \o <<NL>>
    /\ wireKind' = "MSG"
    /\ seenKinds' = seenKinds \cup {"MSG"}
    /\ counterRead' = NoRead
    /\ passLog' = <<>>
    /\ UNCHANGED <<outsideMessages, deviceName, counterValue, statusValue,
                   statusCounter, sTicks, received, request, peerTicks>>

\* simulateCounter: the value above which the counter is set back to 0.
CounterCeiling == 10000

\* simulateCounter without the reset.
SimulateCounter_NoReset(c) == c + 1

\* simulateCounter.
SimulateCounter(c) == IF c + 1 > CounterCeiling THEN 0 ELSE c + 1

\* simulateStatus, with n the value of statusCounter after its increment.
SimulateStatus(n, s) ==
    IF n % 200 = 0 THEN StatusOptions[((n \div 200) % 4) + 1] ELSE s

\* broadcastData for the DataPoint broadcastGeneratedData builds from the
\* counter: DataPoint(CUSTOM, counterValue_, unit, name).
BroadcastData(value, tm) ==
    BROADCAST_STR \o <<"|">> \o deviceName \o <<"|">> \o DataTypeToString("CUSTOM")
        \o <<"|">> \o to_string_double(value) \o <<"|">> \o COUNT_UNIT \o <<"|">>
        \o TimeString(tm) \o <<NL>>

\* A reading: DataPoint(type, value, unit, source).
DataPoint(type, value, unit, source) ==
    [type |-> type, value |-> value, unit |-> unit, source |-> source]

\* broadcastGeneratedData, were it to broadcast before it delivers.
BroadcastGeneratedData_BroadcastFirst(c, st) ==
    <<[call |-> "broadcastData", data |-> DataPoint("CUSTOM", c, COUNT_UNIT, deviceName)],
      [call |-> "sendData", data |-> DataPoint("CUSTOM", c, COUNT_UNIT, deviceName)],
      [call |-> "sendData", data |-> DataPoint("STATUS", 0, st, deviceName)]>>

\* broadcastGeneratedData with counterValue_ = c and statusValue_ = st: the
\* calls it makes, in order: sendData(counterData), sendData(statusData),
\* broadcastData(counterData); the status reading has value 0.0 and carries
\* the status text as its unit.
BroadcastGeneratedData(c, st) ==
    <<[call |-> "sendData", data |-> DataPoint("CUSTOM", c, COUNT_UNIT, deviceName)],
      [call |-> "sendData", data |-> DataPoint("STATUS", 0, st, deviceName)],
      [call |-> "broadcastData", data |-> DataPoint("CUSTOM", c, COUNT_UNIT, deviceName)]>>

\* One pass of SocketDevice::runLoop: generateSimulatedData, then
\* broadcastGeneratedData.
RunLoopPass(tm) ==
    /\ sTicks < MaxTicks
    /\ sTicks' = sTicks + 1
    /\ counterValue' = SimulateCounter(counterValue)
    /\ statusCounter' = statusCounter + 1
    /\ statusValue' = SimulateStatus(statusCounter + 1, statusValue)
    /\ wire' = BroadcastData(SimulateCounter(counterValue), tm)
    /\ wireKind' = "BROADCAST"
    /\ seenKinds' = seenKinds \cup {"BROADCAST"}
    /\ counterRead' = NoRead
    /\ passLog' = BroadcastGeneratedData(SimulateCounter(counterValue),
                                         SimulateStatus(statusCounter + 1, statusValue))
    /\ UNCHANGED <<outsideMessages, deviceName, received, request, peerTicks>>

\* counterValue_ (a plain int, written with no lock) as a thread other than
\* the run loop finds it while the run loop is inside simulateCounter: before
\* `counterValue_++`, between it and the test `counterValue_ > 10000`, or
\* after the reset.
CounterDuringTick(c) == {c, c + 1, SimulateCounter(c)}

\* One pass of SocketDevice::runLoop during which a handleClient thread has
\* received buf and built its reply while the run loop was inside
\* simulateCounter; the reply is written before the pass broadcasts.
RunLoopPassDuringRequest(buf, tm) ==
    /\ sTicks < MaxTicks
    /\ sTicks' = sTicks + 1
    /\ received' = buf
    /\ request' = CString(buf)
    /\ \E c \in CounterDuringTick(counterValue) :
         counterRead' = IF ReadsCounter(CString(buf)) THEN {c} ELSE NoRead
    /\ counterValue' = SimulateCounter(counterValue)
    /\ statusCounter' = statusCounter + 1
    /\ statusValue' = SimulateStatus(statusCounter + 1, statusValue)
    /\ wire' = BroadcastData(SimulateCounter(counterValue), tm)
    /\ wireKind' = "BROADCAST"
    /\ seenKinds' = seenKinds \cup {HandleClientRequest(CString(buf), tm).kind, "BROADCAST"}
    /\ passLog' = BroadcastGeneratedData(SimulateCounter(counterValue),
                                         SimulateStatus(statusCounter + 1, statusValue))
    /\ UNCHANGED <<outsideMessages, deviceName, peerTicks>>

\* A socket device somewhere in its life: the counter and the status counter
\* have any of the values the run loop gives them, nothing was written yet.
MessageInit ==
    /\ kind = "socket"
    /\ DeviceIdle
    /\ CollectorIdle
    /\ ClientsIdle
    /\ RegistersIdle
    /\ SimulatorsIdle
    /\ deviceName \in DeviceNames
    /\ counterValue \in {0, CounterCeiling - 1, CounterCeiling}
    /\ statusCounter \in {0, 199, 799}
    /\ statusValue = StatusAt(statusCounter)
    /\ sTicks = 0
    /\ received = <<>>
    /\ request = <<>>
    /\ wire = <<>>
    /\ wireKind = "none"
    /\ seenKinds = {}
    /\ counterRead = NoRead
    /\ peerTicks = 0
    /\ passLog = <<>>

MessageNext ==
    \/ \E buf \in Buffers, tm \in Times : HandleClient(buf, tm)
    \/ \E type \in MessageTypes, data \in MessageData, tm \in Times :
          SendMessage(type, data, tm)
    \/ \E tm \in Times : RunLoopPass(tm)
    \/ \E buf \in {DATA_STR, STATUS_STR, FOO_STR}, tm \in Times :
          RunLoopPassDuringRequest(buf, tm)

MessageSpec == MessageInit /\ [][MessageNext]_vars

\* msg without its last character.
Body(msg) == SubSeq(msg, 1, Len(msg) - 1)

\* The fields of s, which are separated by "|".
RECURSIVE Fields(_)
Fields(s) ==
    IF \E i \in DOMAIN s : s[i] = "|"
    THEN LET i == CHOOSE j \in DOMAIN s :
                    s[j] = "|" /\ \A k \in 1..(j - 1) : s[k] # "|"
         IN  <<SubSeq(s, 1, i - 1)>> \o Fields(SubSeq(s, i + 1, Len(s)))
    ELSE <<s>>

\* What follows the first "|" of s.
RECURSIVE AfterBar(_)
AfterBar(s) ==
    IF s = <<>> THEN <<>>
    ELSE IF Head(s) = "|" THEN Tail(s) ELSE AfterBar(Tail(s))

StartsWith(s, prefix) ==
    Len(s) >= Len(prefix) /\ SubSeq(s, 1, Len(prefix)) = prefix

\* C17: the reply to the request DATA starts with DATA| and carries device
\* name, counter and status in that order; the reply to STATUS starts with
\* STATUS| and carries device name, status and counter; the reply to every
\* other request starts with ERROR| and its text is the unknown-request
\* prefix followed by the request.
C17_RepliesByRequest ==
    wireKind \in {"DATA", "STATUS", "ERROR"} =>
        IF request = DATA_STR
        THEN /\ StartsWith(wire, DATA_STR \o <<"|">>)
             /\ SubSeq(Fields(Body(wire)), 3, 5)
                   = <<deviceName, to_string(counterValue), statusValue>>
             /\ Len(Fields(Body(wire))) = 5
        ELSE IF request = STATUS_STR
        THEN /\ StartsWith(wire, STATUS_STR \o <<"|">>)
             /\ SubSeq(Fields(Body(wire)), 3, 5)
                   = <<deviceName, statusValue, to_string(counterValue)>>
             /\ Len(Fields(Body(wire))) = 5
        ELSE /\ StartsWith(wire, ERROR_STR \o <<"|">>)
             /\ Body(AfterBar(AfterBar(wire))) = UNKNOWN_REQUEST \o request

\* C17 witness: an unrecognized, non-empty request has been answered, after a
\* DATA and a STATUS request were answered and the counter has advanced.
C17_Witness ==
    /\ wireKind = "ERROR"
    /\ request \notin {DATA_STR, STATUS_STR, <<>>}
    /\ {"DATA", "STATUS"} \subseteq seenKinds
    /\ sTicks > 0

\* C18: every message written to a client contains exactly one newline, as
\* its last character.
C18_OneNewlineAtEnd ==
    wireKind # "none" =>
        /\ Len(wire) > 0
        /\ wire[Len(wire)] = NL
        /\ \A i \in 1..(Len(wire) - 1) : wire[i] # NL

\* ------------------------------------------- the registers of ModbusDevice
\* temperatureBase_(25.0), pressureBase_(1.0), flowBase_(100.0).
temperatureBase == 25 * Scale
pressureBase == 1 * Scale
flowBase == 100 * Scale

\* std::max(reg.minValue, std::min(reg.maxValue, v)).
Clamp(reg, v) ==
    IF v > reg.maxValue THEN reg.maxValue
    ELSE IF v < reg.minValue THEN reg.minValue ELSE v

\* setRegisterValue: an address that is not in registers_ changes nothing.
SetRegisterValue(regs, address, value) ==
    IF address \in DOMAIN regs
    THEN [regs EXCEPT ![address].currentValue = value]
    ELSE regs

\* The values the terms of the simulate functions take (the extremes of
\* 2.0 * (r - 0.5) and 3.0 * sin(..); 0.05 * (r - 0.5) and 0.02 * sin(..);
\* 10.0 * (r - 0.5) and 5.0 * sin(..), with r in [0, 1)).
TemperatureTerms == {-4 * Scale, 4 * Scale - 1}
PressureTerms == {-45, 44}
FlowTerms == {-10 * Scale, 10 * Scale - 1}

\* simulateStatus on a 100th call: 0 with r < 0.9, else int(r * 4), which is
\* 0..3; the least and the greatest.
StatusChoices == {0, 3}

\* The arguments setRegisterValue is called with by users of the device.
SetAddresses == Addresses \cup {8}
SetValues == {-1 * Scale, 99 * Scale}

\* The DataType of the register at an address.
RegisterType(a) ==
    CASE a = 0 -> "TEMPERATURE" [] a = 2 -> "PRESSURE" [] a = 4 -> "FLOW"
      [] a = 6 -> "STATUS"

\* The unit of the register at an address.
RegisterUnit(a) ==
    CASE a = 0 -> <<"u00B0", "C">> [] a = 2 -> <<"M", "P", "a">>
      [] a = 4 -> <<"L", "/", "m", "i", "n">>
      [] a = 6 -> <<"u72B6", "u6001", "u7801">>

\* sendDataToCallback: one DataPoint(reg.type, reg.currentValue, reg.unit,
\* config_.name) per register, in the order of the map.
SendDataToCallback_SkipLast(regs) ==
    [i \in 1..3 |->
        LET a == 2 * (i - 1)
        IN  [address |-> a, type |-> RegisterType(a), value |-> regs[a].currentValue,
             unit |-> RegisterUnit(a), source |-> deviceName]]
SendDataToCallback(regs) ==
    [i \in 1..4 |->
        LET a == 2 * (i - 1)
        IN  [address |-> a, type |-> RegisterType(a), value |-> regs[a].currentValue,
             unit |-> RegisterUnit(a), source |-> deviceName]]

\* ModbusDevice::initialize: the base values are written to the registers.
Initialize ==
    /\ ~mbRunning
    /\ registers' = SetRegisterValue(
                      SetRegisterValue(
                        SetRegisterValue(
                          SetRegisterValue(registers, 0, temperatureBase),
                          2, pressureBase),
                        4, flowBase),
                      6, mbStatusValue * Scale)
    /\ mbRunning' = TRUE
    /\ lastOp' = "initialize"
    /\ emitted' = <<>>
    /\ returned' = NoReturn
    /\ UNCHANGED <<outsideRegisters, mbStatusValue, mbStatusCounter, mTicks>>

\* A call of the public setRegisterValue.
CallSetRegisterValue(address, value) ==
    /\ registers' = SetRegisterValue(registers, address, value)
    /\ lastOp' = "setRegisterValue"
    /\ emitted' = <<>>
    /\ returned' = NoReturn
    /\ UNCHANGED <<outsideRegisters, mbStatusValue, mbStatusCounter, mbRunning, mTicks>>

\* ModbusDevice::getRegisterValue with the address missing, were it to answer
\* with the first register's value.
GetRegisterValue_FirstRegister(regs, address) ==
    IF address \in DOMAIN regs THEN regs[address].currentValue ELSE regs[0].currentValue

\* ModbusDevice::getRegisterValue: registers_.find(address); the register's
\* currentValue, or 0.0 when there is none.
GetRegisterValue(regs, address) ==
    IF address \in DOMAIN regs THEN regs[address].currentValue ELSE 0

\* A call of the public getRegisterValue (a const member function).
CallGetRegisterValue(address) ==
    /\ returned' = [address |-> address, value |-> GetRegisterValue(registers, address)]
    /\ lastOp' = "getRegisterValue"
    /\ emitted' = <<>>
    /\ UNCHANGED <<outsideRegisters, registers, mbStatusValue, mbStatusCounter, mbRunning,
                   mTicks>>

\* registers_ after generateSimulatedData: simulateTemperature,
\* simulatePressure and simulateFlow store the clamped new value;
\* simulateStatus stores statusValue_ on every 100th call only.
GenerateSimulatedData(regs, t, p, f, n, st) ==
    LET r1 == SetRegisterValue(regs, 0, Clamp(regs[0], temperatureBase + t))
        r2 == SetRegisterValue(r1, 2, Clamp(r1[2], pressureBase + p))
        r3 == SetRegisterValue(r2, 4, Clamp(r2[4], flowBase + f))
    IN  IF n % 100 = 0 THEN SetRegisterValue(r3, 6, st * Scale) ELSE r3

\* One pass of ModbusDevice::runLoop: generateSimulatedData,
\* handleModbusRequest, sendDataToCallback.
ModbusRunLoopPass ==
    /\ mbRunning
    /\ mTicks < MaxTicks
    /\ \E t \in TemperatureTerms, p \in PressureTerms, f \in FlowTerms,
          st \in StatusChoices :
         /\ registers' = GenerateSimulatedData(registers, t, p, f,
                                               mbStatusCounter + 1, st)
         /\ mbStatusValue' = IF (mbStatusCounter + 1) % 100 = 0 THEN st
                             ELSE mbStatusValue
         /\ emitted' = SendDataToCallback(registers')
    /\ mbStatusCounter' = mbStatusCounter + 1
    /\ mTicks' = mTicks + 1
    /\ lastOp' = "tick"
    /\ returned' = NoReturn
    /\ UNCHANGED <<outsideRegisters, mbRunning>>

\* Device::stop: the run loop ends; start() may initialize again.
ModbusStop ==
    /\ mbRunning
    /\ mbRunning' = FALSE
    /\ lastOp' = "stop"
    /\ emitted' = <<>>
    /\ returned' = NoReturn
    /\ UNCHANGED <<outsideRegisters, registers, mbStatusValue, mbStatusCounter, mTicks>>

\* A register device right after construction; simulateStatus's static
\* counter has any of the values earlier passes left in it.
RegisterInit ==
    /\ kind = "modbus"
    /\ DeviceIdle
    /\ CollectorIdle
    /\ ClientsIdle
    /\ MessagesQuiet
    /\ SimulatorsIdle
    /\ deviceName \in DeviceNames
    /\ registers = InitialRegisters
    /\ mbStatusValue = 0
    /\ mbStatusCounter \in {0, 98}
    /\ mbRunning = FALSE
    /\ mTicks = 0
    /\ emitted = <<>>
    /\ lastOp = "constructor"
    /\ returned = NoReturn

RegisterNext ==
    \/ Initialize
    \/ \E a \in SetAddresses, v \in SetValues : CallSetRegisterValue(a, v)
    \/ \E a \in SetAddresses : CallGetRegisterValue(a)
    \/ ModbusRunLoopPass
    \/ ModbusStop

RegisterSpec == RegisterInit /\ [][RegisterNext]_vars

\* minValue <= currentValue <= maxValue.
InRange(reg) == reg.minValue <= reg.currentValue /\ reg.currentValue <= reg.maxValue

\* C19: after every tick of the register device every register is within its
\* range and every reading the tick emitted is within its register's range,
\* whatever setRegisterValue stored before.
C19_InRangeAfterTick ==
    lastOp = "tick" =>
        /\ \A a \in Addresses : InRange(registers[a])
        /\ \A i \in DOMAIN emitted :
              /\ registers[emitted[i].address].minValue <= emitted[i].value
              /\ emitted[i].value <= registers[emitted[i].address].maxValue

\* C20: in every reachable state of a register device, from construction on,
\* each register's current value lies within its declared range.
C20_AlwaysInRange ==
    \A a \in Addresses : InRange(registers[a])

\* C21: each tick of the register device emits, after the recomputation,
\* exactly one reading per register, carrying that register's type, unit and
\* current value and the name of the device.
C21_OneReadingPerRegister ==
    lastOp = "tick" =>
        /\ Len(emitted) = 4
        /\ \A a \in Addresses :
              \E i \in DOMAIN emitted :
                  /\ emitted[i].address = a
                  /\ \A j \in DOMAIN emitted : emitted[j].address = a => j = i
                  /\ emitted[i].value = registers[a].currentValue
                  /\ emitted[i].source = deviceName
        /\ \A i \in DOMAIN emitted :
              <<emitted[i].address, emitted[i].type, emitted[i].unit>>
                 \in {<<0, "TEMPERATURE", <<"u00B0", "C">>>>,
                      <<2, "PRESSURE", <<"M", "P", "a">>>>,
                      <<4, "FLOW", <<"L", "/", "m", "i", "n">>>>,
                      <<6, "STATUS", <<"u72B6", "u6001", "u7801">>>>}

\* C21 witness: a second tick has emitted its readings, the status reading
\* among them with a value other than the initial one.
C21_Witness ==
    /\ lastOp = "tick"
    /\ mTicks >= 2
    /\ \E i \in DOMAIN emitted : emitted[i].address = 6 /\ emitted[i].value # 0

\* A step in which a reset() of a running device returns success.
ResetReturnsSuccess ==
    /\ callerPc # "idle" /\ callerPc' = "idle"
    /\ cur.op = "reset" /\ cur.running0
    /\ callLog'[Len(callLog')].res = SUCCESS

\* C22: reset() on a running device whose loop is executing completes its
\* stop() and goes on to start(); and when reset() on a running device
\* returns success the device is running with status Online, and during the
\* call the status callback has observed Offline and after it Online.
C22_ResetStopsThenStarts ==
    /\ (callerPc = "stop_thread" /\ inReset /\ workerThread # 0
           /\ threads[workerThread].pc \in LoopPcs)
          ~> (callerPc = "start_init")
    /\ [][ResetReturnsSuccess =>
            /\ running' /\ status' = ONLINE
            /\ \E i, j \in (cur.cb0 + 1)..Len(cbLog') :
                  i < j /\ cbLog'[i] = OFFLINE /\ cbLog'[j] = ONLINE]_vars


\* C23: updateConfig(c) replaces the stored configuration by c and leaves the
\* status, the running flag, the worker and accept threads and the server
\* socket as they were, whether or not the device is running.
C23_UpdateConfigFrame ==
    [][\A c \in Configs : UpdateConfig(c) =>
          /\ config' = c
          /\ UNCHANGED <<running, status, workerThread, threads, serverSocket,
                         callerPc, cbLog, statusLog>>]_vars

\* The configuration has been replaced while the device is running with its
\* loop executing and its server socket open.
C23_Witness ==
    /\ config # FirstConfig
    /\ running /\ status = ONLINE
    /\ kind = "socket" /\ serverSocket = "open"
    /\ workerThread # 0 /\ threads[workerThread].pc \in LoopPcs

\* C24: when addDevice(d) with a non-null d returns, d is in the set and
\* start() has been called on d if and only if the collector was running
\* when addDevice was called; when it was not running, the running flag,
\* the worker and the status of every device are as before the last step
\* of the call.
C24_StartsIffCollectorRunning ==
    /\ []((cPc = "idle" /\ cLast.dev # 0)
            => /\ InVector(cLast.dev)
               /\ cLast.started <=> cLast.wasRunning)
    /\ [][(cPc = "add_start" /\ cPc' = "idle" /\ ~cArg.wasRunning)
            => UNCHANGED <<dRunning, dAlive, dStatus>>]_vars

\* C24 witness: an addDevice made on a running collector has returned and
\* the device it added is running with its loop executing.
C24_Witness ==
    /\ cPc = "idle" /\ cLast.dev # 0
    /\ cLast.wasRunning /\ cLast.started
    /\ dRunning[cLast.dev] /\ dAlive[cLast.dev] /\ dStatus[cLast.dev] = ONLINE

\* A step of DataCollector::start(), DataCollector::stop() (with the join of
\* the collector thread) or of the collector thread (loop test, updateLoop,
\* sleep).
SupervisionStep ==
    \/ CollectorStart
    \/ CollectorStop
    \/ CollectorStopJoin
    \/ CollectCheck
    \/ UpdateVisit
    \/ UpdateStatus
    \/ UpdateInvalidated
    \/ CollectSleep

\* C25: start(), stop() and the supervisory tick of the collector leave the
\* running flag, the worker and the status of every device unchanged.
C25_SupervisionLeavesDevices ==
    [][SupervisionStep => UNCHANGED <<dRunning, dAlive, dStatus>>]_vars

\* C25 witness: the collector was running when a device was added and has
\* been stopped since; the device is still running, with status Error.
C25_Witness ==
    /\ cPc = "idle" /\ ~cRunning /\ cThread.pc = "none"
    /\ cLast.started /\ InVector(cLast.dev)
    /\ dRunning[cLast.dev] /\ dStatus[cLast.dev] = ERROR

\* The flags of every device other than d are unchanged.
OthersUntouched(d) ==
    \A e \in Devs \ {d} :
        /\ dRunning'[e] = dRunning[e]
        /\ dAlive'[e] = dAlive[e]
        /\ dStatus'[e] = dStatus[e]

\* C26: removeDevice(name) for a name in the set stops the device (the call
\* gets past stop()), then removes it, and the other devices stay in the set
\* as they are; for a name not in the set nothing changes.
C26_RemoveStopsThenErases ==
    /\ (cPc = "rm_stop") ~> (cPc = "idle")
    /\ [][(cPc = "rm_find" /\ cPc' = "idle")
            => UNCHANGED <<devices, dRunning, dAlive, dStatus>>]_vars
    /\ [][(cPc = "rm_stop" /\ cPc' # cPc)
            => /\ ~dRunning'[cArg.old]
               /\ devices' = devices
               /\ OthersUntouched(cArg.old)]_vars
    /\ [][(cPc = "rm_erase" /\ cPc' # cPc)
            => /\ ~dRunning[cArg.old]
               /\ devices' = Erase(devices, FindByName(cArg.name))
               /\ \A i \in DOMAIN devices' : devices'[i] # cArg.old
               /\ UNCHANGED <<dRunning, dAlive, dStatus>>]_vars

\* C27: whenever updateLoop has examined a device, it has written the line
\* about that device if and only if its isRunning() test of the device was
\* true and the status it then read was Error.
C27_DiagnosticIffRunningError ==
    [][(cDiag' # cDiag /\ cDiag'.dev # 0)
         => /\ cDiag'.dev = devices[cThread.idx]
            /\ cDiag'.st = dStatus[cDiag'.dev]
            /\ cThread.pc = "iter" => (~cDiag'.ran /\ ~dRunning[cDiag'.dev])
            /\ cThread.pc = "status" => cDiag'.ran
            /\ cDiag'.emitted <=> (cDiag'.ran /\ cDiag'.st = ERROR)]_vars

\* C27 witness: the line has been written for one device of a set that also
\* holds a device in status Error that is not running.
C27_Witness ==
    /\ cDiag.emitted
    /\ \E i \in DOMAIN devices :
          devices[i] # cDiag.dev /\ ~dRunning[devices[i]] /\ dStatus[devices[i]] = ERROR

\* C28: the counter of the socket device is between 0 and 10000 after
\* every pass of the run loop, and each pass adds one to it, or sets it to 0
\* when it was 10000.
C28_CounterWraps ==
    /\ [](counterValue \in 0..CounterCeiling)
    /\ [][sTicks' = sTicks + 1
            => counterValue' = IF counterValue = CounterCeiling THEN 0
                               ELSE counterValue + 1]_vars

\* C28 witness: the counter has gone from 9999 through 10000 to 0.
C28_Witness == sTicks >= 2 /\ counterValue = 0

\* ------------------------------------------- the generators (data_simulator.cpp)

\* std::min(a, b) and std::max(a, b).
StdMin(a, b) == IF b < a THEN b ELSE a
StdMax(a, b) == IF a < b THEN b ELSE a

\* String::find(sub) != String::npos.
Contains(str, sub) ==
    \E i \in 1..(Len(str) - Len(sub) + 1) : SubSeq(str, i, i + Len(sub) - 1) = sub

\* Names given to generators besides the default ones.
PRESSURE_FLOW == <<"P", "r", "e", "s", "s", "u", "r", "e", " ", "F", "l", "o", "w">>
BOILER == <<"B", "o", "i", "l", "e", "r">>

SimNames(class) ==
    {DefaultName(class)}
        \cup (IF class = "FLOW" THEN {PRESSURE_FLOW} ELSE {})
        \cup (IF class = "TEMPERATURE" THEN {BOILER} ELSE {})

\* The counter, trend_ and currentStatus_ of a generator that has been
\* called some number of times: fresh, or about to reach the call at which
\* its rare branch is taken.
Aged(g) ==
    CASE g.class = "TEMPERATURE" ->
           {g, [g EXCEPT !.counter = 198, !.trend = 100],
               [g EXCEPT !.counter = 198, !.trend = -100]}
      [] g.class = "PRESSURE" -> {g, [g EXCEPT !.counter = 49]}
      [] g.class = "FLOW" -> {g, [g EXCEPT !.counter = 199]}
      [] g.class = "STATUS" -> {g, [g EXCEPT !.counter = 99], [g EXCEPT !.counter = 499]}

\* TemperatureSimulator::generateData: 25 plus a draw from [-5, 5], plus
\* trend_ times the count within the hundred (trend_ drawn anew from
\* [-0.1, 0.1] at every hundredth call), plus 2 sin of the hour, clamped.
\* Each result comes with the generator's state after the call.
TemperatureData(g) ==
    LET c == g.counter + 1 IN
    {[g |-> [g EXCEPT !.counter = c, !.trend = t],
      reading |-> DataPoint("TEMPERATURE",
                     StdMax(g.minValue,
                            StdMin(g.maxValue, 25 * Scale + r + t * (c % 100) + dn)),
                     <<"u00B0", "C">>, g.name)] :
        r \in {-5 * Scale, 5 * Scale},
        dn \in {-2 * Scale, 2 * Scale},
        t \in (IF c % 100 = 0 THEN {-100, 100} ELSE {g.trend})}

\* PressureSimulator::generateData: 1.0 plus a draw from [-0.05, 0.05], plus
\* 0.02 sin(count * 0.1), plus at every fiftieth call a draw from
\* [-0.05, 0.05], clamped.
PressureData(g) ==
    LET c == g.counter + 1 IN
    {[g |-> [g EXCEPT !.counter = c],
      reading |-> DataPoint("PRESSURE",
                     StdMax(g.minValue, StdMin(g.maxValue, 1000 + n + cyc + w)),
                     <<"M", "P", "a">>, g.name)] :
        n \in {-50, 50},
        cyc \in {-20, 20},
        w \in (IF c % 50 = 0 THEN {-50, 50} ELSE {0})}

\* FlowSimulator::generateData: 100 plus a draw from [-10, 10], plus
\* 5 sin(count * 0.01), plus at every two-hundredth call a draw from
\* [-20, 20], clamped.
FlowData(g) ==
    LET c == g.counter + 1 IN
    {[g |-> [g EXCEPT !.counter = c],
      reading |-> DataPoint("FLOW",
                     StdMax(g.minValue, StdMin(g.maxValue, 100 * Scale + f + sea + j)),
                     <<"L", "/", "m", "i", "n">>, g.name)] :
        f \in {-10 * Scale, 10 * Scale},
        sea \in {-5 * Scale, 5 * Scale},
        j \in (IF c % 200 = 0 THEN {-20 * Scale, 20 * Scale} ELSE {0})}

\* StatusSimulator::generateData, the range its result is limited to:
\* std::max(0, std::min(statusValues_.size() - 1, currentStatus_)).
StatusLimit(g, v) == StdMax(0, StdMin(4, v))

\* StatusSimulator::generateData, were the draw of every five-hundredth call
\* taken from [0, 5) like the one of every hundredth call.
StatusData_SameDraw(g) ==
    LET c == g.counter + 1 IN
    {[g |-> [g EXCEPT !.counter = c, !.currentStatus = StatusLimit(g, v)],
      reading |-> DataPoint("STATUS", StatusLimit(g, v) * Scale,
                            <<"u72B6", "u6001", "u7801">>, g.name)] :
        v \in (IF c % 100 = 0 THEN {0, 4} ELSE {g.currentStatus})}

\* StatusSimulator::generateData: at every hundredth call currentStatus_ is
\* the integer part of a draw from [0, 5), at every five-hundredth call of
\* a draw from [1, 5); then it is limited.
StatusData(g) ==
    LET c == g.counter + 1 IN
    {[g |-> [g EXCEPT !.counter = c, !.currentStatus = StatusLimit(g, v)],
      reading |-> DataPoint("STATUS", StatusLimit(g, v) * Scale,
                            <<"u72B6", "u6001", "u7801">>, g.name)] :
        v \in (IF c % 500 = 0 THEN {1, 4}
               ELSE IF c % 100 = 0 THEN {0, 4}
               ELSE {g.currentStatus})}

\* The virtual call simulator->generateData().
GeneratedBy(g) ==
    CASE g.class = "TEMPERATURE" -> TemperatureData(g)
      [] g.class = "PRESSURE" -> PressureData(g)
      [] g.class = "FLOW" -> FlowData(g)
      [] g.class = "STATUS" -> StatusData(g)

\* CompositeSimulator::addSimulator: the type under which a generator of
\* this name is entered in typeMap_, "NONE" when no branch is taken.
TypeFromName(name) ==
    IF Contains(name, DefaultName("TEMPERATURE")) \/ Contains(name, <<"u6E29", "u5EA6">>)
    THEN "TEMPERATURE"
    ELSE IF Contains(name, DefaultName("PRESSURE")) \/ Contains(name, <<"u538B", "u529B">>)
    THEN "PRESSURE"
    ELSE IF Contains(name, DefaultName("FLOW")) \/ Contains(name, <<"u6D41", "u91CF">>)
    THEN "FLOW"
    ELSE IF Contains(name, DefaultName("STATUS")) \/ Contains(name, <<"u72B6", "u6001">>)
    THEN "STATUS"
    ELSE "NONE"

\* The values given to setMinValue and to setMaxValue.
MinChoices == {1 * Scale}
MaxChoices == {2 * Scale}

\* DataSimulator::setMinValue(v) on generator x, for v that leaves a range.
SetMinValue(x, v) ==
    /\ simOps < MaxSimOps
    /\ v <= sim[x].maxValue
    /\ simOps' = simOps + 1
    /\ sim' = [sim EXCEPT ![x].minValue = v]
    /\ produced' = NoProduced
    /\ UNCHANGED <<outsideSimulators, simulators, typeMap>>

\* DataSimulator::setMaxValue(v) on generator x, for v that leaves a range.
SetMaxValue(x, v) ==
    /\ simOps < MaxSimOps
    /\ sim[x].minValue <= v
    /\ simOps' = simOps + 1
    /\ sim' = [sim EXCEPT ![x].maxValue = v]
    /\ produced' = NoProduced
    /\ UNCHANGED <<outsideSimulators, simulators, typeMap>>

\* generateData() called on generator x.
GenerateData(x) ==
    /\ simOps < MaxSimOps
    /\ simOps' = simOps + 1
    /\ \E o \in GeneratedBy(sim[x]) :
         /\ sim' = [sim EXCEPT ![x] = o.g]
         /\ produced' = [op |-> "generate", req |-> "", by |-> x, reading |-> o.reading]
    /\ UNCHANGED <<outsideSimulators, simulators, typeMap>>

\* CompositeSimulator::addSimulator(simulator); x = 0 is the null pointer.
AddSimulator(x) ==
    /\ simOps < MaxSimOps
    /\ simOps' = simOps + 1
    /\ produced' = NoProduced
    /\ IF x = 0
       THEN UNCHANGED <<simulators, typeMap>>
       ELSE /\ simulators' = Append(simulators, x)
            /\ typeMap' = IF TypeFromName(sim[x].name) = "NONE" THEN typeMap
                          ELSE [typeMap EXCEPT ![TypeFromName(sim[x].name)] = x]
    /\ UNCHANGED <<outsideSimulators, sim>>

\* DataPoint(type, 0.0, "N/A", "Default").
DefaultReading(type) ==
    DataPoint(type, 0, <<"N", "/", "A">>, <<"D", "e", "f", "a", "u", "l", "t">>)

\* CompositeSimulator::generateData(type).
CompositeGenerateData(type) ==
    /\ simOps < MaxSimOps
    /\ simOps' = simOps + 1
    /\ IF typeMap[type] # 0
       THEN \E o \in GeneratedBy(sim[typeMap[type]]) :
              /\ sim' = [sim EXCEPT ![typeMap[type]] = o.g]
              /\ produced' = [op |-> "composite", req |-> type, by |-> typeMap[type],
                              reading |-> o.reading]
       ELSE /\ produced' = [op |-> "composite", req |-> type, by |-> 0,
                            reading |-> DefaultReading(type)]
            /\ UNCHANGED sim
    /\ UNCHANGED <<outsideSimulators, simulators, typeMap>>

\* Generator objects of any class, each with one of its names and a number
\* of calls behind it; an empty composite generator.
SimulatorInit ==
    /\ kind = "modbus"
    /\ DeviceIdle
    /\ CollectorIdle
    /\ ClientsIdle
    /\ MessagesIdle
    /\ RegistersIdle
    /\ sim \in [Sims -> UNION {Aged(NewSimulator(c, n)) :
                                 c \in SimClasses, n \in UNION {SimNames(d) : d \in SimClasses}}]
    /\ \A x \in Sims : sim[x].name \in SimNames(sim[x].class)
    /\ simulators = <<>>
    /\ typeMap = [t \in DataTypes |-> 0]
    /\ simOps = 0
    /\ produced = NoProduced

SimulatorNext ==
    \/ \E x \in Sims, v \in MinChoices : SetMinValue(x, v)
    \/ \E x \in Sims, v \in MaxChoices : SetMaxValue(x, v)
    \/ \E x \in Sims : GenerateData(x)
    \/ \E x \in Sims \cup {0} : AddSimulator(x)
    \/ \E type \in DataTypes : CompositeGenerateData(type)

SimulatorSpec == SimulatorInit /\ [][SimulatorNext]_vars

\* C29: every reading a temperature, pressure, flow or status generator
\* returns has a value within the generator's minimum and maximum.
C29_ReadingWithinRange ==
    produced.by # 0 =>
        /\ sim[produced.by].minValue <= produced.reading.value
        /\ produced.reading.value <= sim[produced.by].maxValue

\* The generators handed to addSimulator whose readings have semantic type t.
RegisteredFor(t) ==
    {simulators[i] : i \in {j \in DOMAIN simulators : sim[simulators[j]].class = t}}

\* C30: CompositeSimulator::generateData(T) returns a reading of semantic
\* type T produced by a generator of type T that was added to the composite;
\* when none was added it returns the default reading (type T, value 0,
\* unit N/A, source Default).
C30_RoutesBySemanticType ==
    produced.op = "composite" =>
        IF RegisteredFor(produced.req) # {}
        THEN /\ produced.by \in RegisteredFor(produced.req)
             /\ produced.reading.type = produced.req
        ELSE /\ produced.by = 0
             /\ produced.reading = DefaultReading(produced.req)
\* The range of a register.
Range(reg) == <<reg.minValue, reg.maxValue>>

\* C31: no tick, setRegisterValue or getRegisterValue adds or removes an
\* address or changes a register's range; setRegisterValue on a missing
\* address changes no register, and getRegisterValue on a missing address
\* returns 0.
C31_RegisterSetFixed ==
    /\ [](/\ DOMAIN registers = Addresses
          /\ \A a \in Addresses : Range(registers[a]) = Range(InitialRegisters[a])
          /\ (lastOp = "getRegisterValue" /\ returned.address \notin Addresses)
                => returned.value = 0)
    /\ [][/\ lastOp' = "getRegisterValue" => registers' = registers
          /\ \A a \in SetAddresses \ Addresses, v \in SetValues :
               CallSetRegisterValue(a, v) => registers' = registers]_vars

\* A missing address was read after a tick and a setRegisterValue on a
\* missing address left values other than 0 in the registers.
C31_Witness ==
    /\ lastOp = "getRegisterValue"
    /\ returned.address \notin Addresses
    /\ mTicks > 0
    /\ \A a \in Addresses : registers[a].currentValue # 0

\* C32: once the main loop of the socket device has observed the stop signal
\* (it has left `while (running_)` and waits for the accept thread), the
\* accept activity terminates and runLoop returns, with no further incoming
\* connection.
C32_AcceptTerminates ==
    \A t \in TIDs :
      (kind = "socket" /\ threads[t].pc = "join_accept") ~> (threads[t].pc # "join_accept")

\* The handleClient threads, not yet ended, that were given descriptor f.
HandlersOf(f) == {c \in Conns : handlers[c].pc \notin {"none", "done"} /\ handlers[c].fd = f}

\* C33: an open client descriptor is served by at most one handler, and a
\* close() made by a handler at its exit, by a failed broadcast or by
\* stopSocketServer is of a descriptor that is open and still refers to the
\* connection it was accepted for, also when descriptor numbers are reused.
C33_ClosedExactlyOnce ==
    /\ [](\A f \in Fds : fdConn[f] # 0 => Cardinality(HandlersOf(f)) <= 1)
    /\ [][\A c \in Conns : HandlerClose(c) => fdConn[handlers[c].fd] = c]_vars

\* C34: every counter value a client handler reads to build a DATA or STATUS
\* reply lies in [0, 10000], at whatever point of a concurrently executing
\* tick the handler reads it.
C34_CounterReadInRange == \A c \in counterRead : c \in 0..CounterCeiling

\* ------------------------------ the handler threads of a socket device's life

\* Connections accepted during the life of the device that is followed here.
MaxHandlers == 1

\* The handleClient threads started so far.
Started == {c \in Conns : handlers[c].pc # "none"}

\* acceptConnections: accept() has returned a connection; it is put into
\* clientSockets_ under the lock and a detached thread runs handleClient,
\* which first tests `while (running_)`.
AcceptClient(t) ==
    /\ threads[t].acc = "accept"
    /\ Cardinality(Started) < MaxHandlers
    /\ CanLock
    /\ \E f \in Fds : fdConn[f] = 0
    /\ \E c \in Conns : connState[c] = "pending"
    /\ fdConn' = [fdConn EXCEPT ![LowestFree] = NextPending]
    /\ connState' = [connState EXCEPT ![NextPending] = "open"]
    /\ clientSockets' = Append(clientSockets, LowestFree)
    /\ handlers' = [handlers EXCEPT
                       ![NextPending] = [pc |-> "test", fd |-> LowestFree, det |-> 0]]
    /\ threads' = With(t, [threads[t] EXCEPT !.acc = "check"])
    /\ UNCHANGED <<collectorVars, messageVars, registerVars, simulatorVars, config, kind,
                   running, status, serverSocket, workerThread, callerPc, callerSeen,
                   inReset, calls, cur, callLog, cbLog, statusLog, clientsMutex, acc, bc,
                   cleaner, sentLog, snapshot, lastWrite, dropped>>

\* handleClient: the test of `while (running_)`; when it fails the handler
\* goes on to remove and close its descriptor.
HandlerTest(c) ==
    /\ handlers[c].pc = "test"
    /\ handlers' = [handlers EXCEPT ![c].pc = IF running THEN "recv" ELSE "detected"]
    /\ UNCHANGED <<outsideClients, clientSockets, clientsMutex, fdConn, connState, acc,
                   bc, cleaner, sentLog, snapshot, lastWrite, dropped>>

\* handleClient: recv(MSG_DONTWAIT) returns -1 (the peer has sent nothing
\* and has not closed, or the descriptor is closed); sleep_for(100 ms) and
\* the loop tests again.
HandlerRecvNone(c) ==
    /\ handlers[c].pc = "recv"
    /\ fdConn[handlers[c].fd] = 0 \/ connState[fdConn[handlers[c].fd]] = "open"
    /\ handlers' = [handlers EXCEPT ![c].pc = "test"]
    /\ UNCHANGED <<outsideClients, clientSockets, clientsMutex, fdConn, connState, acc,
                   bc, cleaner, sentLog, snapshot, lastWrite, dropped>>

\* The steps the handleClient thread of connection c takes by itself.
HandlerStep(c) ==
    \/ HandlerTest(c)
    \/ HandlerRecvNone(c)
    \/ HandlerRecvZero(c)
    \/ HandlerLock(c)
    \/ HandlerErase(c)
    \/ HandlerClose(c)

\* A socket device right after construction.
HandlerInit == Init /\ kind = "socket"

HandlerNext ==
    \/ CallStart
    \/ CallStop
    \/ CallReset
    \/ CallerStep
    \/ \E t \in TIDs : WorkerStep(t)
    \/ \E t \in TIDs : AcceptCheck(t)
    \/ \E t \in TIDs : AcceptReturn(t)
    \/ \E t \in TIDs : AcceptClient(t)
    \/ \E c \in Conns : PeerCloses(c)
    \/ \E c \in Conns : HandlerStep(c)

HandlerSpec == HandlerInit /\ [][HandlerNext]_vars

\* Every thread that can take a step is eventually scheduled; calls, incoming
\* connections and what the peers do are up to the environment.
FairHandlerSpec ==
    /\ HandlerSpec
    /\ WF_vars(CallerStep)
    /\ \A t \in TIDs : WF_vars(WorkerStep(t))
    /\ \A t \in TIDs : WF_vars(AcceptCheck(t))
    /\ \A c \in Conns : WF_vars(HandlerStep(c))

\* The handleClient thread of connection c has been started and has not ended.
HandlerAlive(c) == handlers[c].pc \notin {"none", "done"}

\* C35: every handler that was started before a stop() of the socket device
\* (it is alive when the call is made) eventually exits once that stop() is
\* under way.
C35_HandlersExitAfterStop ==
    \A c \in Conns :
      [](HandlerAlive(c) /\ callerPc = "idle"
           => [](callerPc = "stop_thread" => <>(handlers[c].pc = "done")))

\* ------------------------------ several socket devices in one process

\* One pass of the runLoop of another SocketDevice of the process: of what
\* this device reads, it changes the function-local `static int
\* statusCounter` of simulateStatus, which all SocketDevice objects share. The
\* counter is incremented with no lock by every device's worker thread; a
\* pass whose increment is lost to a simultaneous one changes nothing here.
PeerRunLoopPass ==
    /\ peerTicks < MaxTicks
    /\ peerTicks' = peerTicks + 1
    /\ statusCounter' = statusCounter + 1
    /\ counterRead' = NoRead
    /\ passLog' = <<>>
    /\ UNCHANGED <<outsideMessages, deviceName, counterValue, statusValue, sTicks,
                   received, request, wire, wireKind, seenKinds>>

StatusNext ==
    \/ \E tm \in Times : RunLoopPass(tm)
    \/ PeerRunLoopPass

\* A socket device somewhere in its life, the other socket devices of the
\* process not having made a pass yet.
StatusSpec == MessageInit /\ [][StatusNext]_vars

\* The vocabulary entry that follows s in the cyclic order.
NextStatus(s) ==
    StatusOptions[((CHOOSE i \in DOMAIN StatusOptions : StatusOptions[i] = s) % 4) + 1]

\* The passes this device has made since its construction: the static
\* counter less what the other devices added to it.
OwnTicks == statusCounter - peerTicks

\* C36: the status value of a socket device is always one of the four
\* vocabulary entries, it changes exactly on every 200th tick of that device
\* and then becomes the next entry of the cyclic order, also when other
\* socket devices run in the same process.
C36_StatusEvery200thTick ==
    /\ [](\E i \in DOMAIN StatusOptions : statusValue = StatusOptions[i])
    /\ [][sTicks' = sTicks + 1 =>
            statusValue' = IF (OwnTicks + 1) % 200 = 0
                           THEN NextStatus(statusValue) ELSE statusValue]_vars

\* C37: a tick of the socket device first advances counter and status, then
\* delivers the counter reading and after it the status reading to the data
\* callback, one reading per call, and then hands one BROADCAST line with the
\* counter reading to the broadcast over the client set.
C37_TickOrder ==
    /\ [](passLog # <<>> =>
            /\ Len(passLog) = 3
            /\ passLog[1] = [call |-> "sendData",
                             data |-> DataPoint("CUSTOM", counterValue, COUNT_UNIT, deviceName)]
            /\ passLog[2] = [call |-> "sendData",
                             data |-> DataPoint("STATUS", 0, statusValue, deviceName)]
            /\ passLog[3].call = "broadcastData"
            /\ wireKind = "BROADCAST"
            /\ \E tm \in Times : wire = BroadcastData(passLog[3].data.value, tm)
            /\ passLog[3].data = passLog[1].data)
    /\ [][passLog' # <<>> =>
            /\ counterValue' = SimulateCounter(counterValue)
            /\ statusCounter' = statusCounter + 1
            /\ statusValue' = SimulateStatus(statusCounter', statusValue)]_vars

\* C37 witness: a tick in which the counter went back to 0 and the status
\* changed has delivered and broadcast.
C37_Witness ==
    /\ passLog # <<>>
    /\ counterValue = 0
    /\ statusCounter = 200
    /\ statusValue = StatusOptions[2]

DeviceUpdateConfig(d, n) ==
    /\ cPc = "idle"
    /\ cOps < MaxOps
    /\ cOps' = cOps + 1
    /\ InVector(d)
    /\ dName[d] # n
    /\ dName' = [dName EXCEPT ![d] = n]
    /\ UNCHANGED <<outsideCollector, devices, cRunning, cThread, cPc, cArg, held, dRunning,
                   dAlive, dStatus, cDiag, cLast>>

NamingNext ==
    \/ CollectorNext
    \/ \E d \in Devs, n \in Names : DeviceUpdateConfig(d, n)

\* The collector and its devices, the owner also reconfiguring the devices.
NamingSpec == CollectorInit /\ [][NamingNext]_vars

\* C39: after any sequence of addDevice, removeDevice and updateConfig calls
\* no two devices in the collector's set have the same name.
C39_UniqueNames ==
    \A i, j \in DOMAIN devices : i # j => dName[devices[i]] # dName[devices[j]]

\* The status generators whose generateData the step has called.
StatusCalled(x) ==
    sim[x].class = "STATUS" /\ sim'[x].counter = sim[x].counter + 1

\* C40: the value of a status generator changes only on calls whose running
\* count is a multiple of 100, the value returned by a call whose count is a
\* multiple of 500 is not 0, and the value is always one of 0..4.
C40_StatusGeneratorSteps ==
    /\ [](\A x \in Sims : sim[x].class = "STATUS" => sim[x].currentStatus \in 0..4)
    /\ [][\A x \in Sims : StatusCalled(x) =>
            /\ produced'.reading.type = "STATUS"
            /\ produced'.reading.value = sim'[x].currentStatus * Scale
            /\ sim'[x].currentStatus # sim[x].currentStatus => sim'[x].counter % 100 = 0
            /\ sim'[x].counter % 500 = 0 => produced'.reading.value # 0]_vars

\* C40 witness: a status generator has made its 500th and its 501st call and
\* holds a value other than 0.
C40_Witness ==
    \E x \in Sims :
      /\ sim[x].class = "STATUS"
      /\ sim[x].counter = 501
      /\ sim[x].currentStatus # 0
      /\ produced.reading # <<>>
      /\ produced.reading.value = sim[x].currentStatus * Scale

====
